---- MODULE Spec2Model ----
(***************************************************************************)
(* A model of the github-jira-sync event-to-job pipeline:                  *)
(*   - the deduplication service (src/deduplication/index.ts),             *)
(*   - the webhook handlers (src/webhooks/github.ts),                      *)
(*   - the BullMQ queues and the sync worker (queue/index.ts, worker.ts),  *)
(*   - the sync engine (core/sync-engine.ts),                              *)
(*   - conflict detection and resolution (conflict-resolution/index.ts).   *)
(***************************************************************************)
EXTENDS Integers, Sequences, FiniteSets, TLC

\* ------------------------------------------------------------------------
\* Bounds of the model
\* ------------------------------------------------------------------------
NumHashes == 2
MaxTtl == 2
MaxJobs == 2
MaxRetryJobs == 1
NumSources == 1
MaxDeliveries == 2
MaxClock == 2
MaxOffset == 1
MaxLimitJobs == 4
LowConcurrency == 2
MaxLabelName == 3

Hashes == 1..NumHashes
Ttls == 1..MaxTtl

\* an absent (null or undefined) string, and an absent object
NULL == "null"
NONE == [null |-> TRUE]

VARIABLES
  redis,      \* dedup keys of the Redis store: hash -> seconds to live, 0 = no key
  redisUp,    \* TRUE while calls to the Redis store succeed, FALSE while they reject
  lastDedup,  \* the last call to the deduplication service and what it returned
  grants,     \* per hash, the processDeduplication calls the reachable store
              \* answered with shouldProcess=true during the key's current life
  jobs,       \* the BullMQ jobs in Redis, in the order they were added
  jiraIssues,     \* Jira issues created by the engine: the GitHub id each came from
  githubIssues,   \* GitHub issues created by the engine: the Jira key each came from
  storedMappings, \* the <<githubId, jiraKey>> pairs handed to storeMapping
  deliveries,     \* the webhook handler invocations, in the order they began
  conflict,       \* a conflict-engine call: its inputs, its report, its resolution
  config,         \* the AppConfig the sync engine holds (this.config)
  limiter         \* the jobs the Worker started in the current rate-limiter window

dedupVars == <<redis, redisUp, lastDedup, grants>>
syncVars == <<jobs, jiraIssues, githubIssues, storedMappings>>
vars == <<redis, redisUp, lastDedup, grants, jobs, jiraIssues, githubIssues,
          storedMappings, deliveries, conflict, config, limiter>>
notDedupVars == <<syncVars, deliveries, conflict, config, limiter>>
notSyncVars == <<dedupVars, deliveries, conflict, config, limiter>>

\* ------------------------------------------------------------------------
\* Deduplication service  (src/deduplication/index.ts)
\* ------------------------------------------------------------------------

\* an EXISTS that answers 0 for every key
redisExists_never(store, h) == 0

\* redisClient.exists(key): 1 when the key is live
redisExists(store, h) == IF store[h] > 0 THEN 1 ELSE 0

\* redisClient.set(key, value, 'EX', ttl) without NX: always writes
dedupSetReply_noNX(store, h) == "OK"

\* redisClient.set(key, value, 'EX', ttl, 'NX'): 'OK' when the key was absent
\* and has been written, null when the key is live
dedupSetReply(store, h) == IF store[h] = 0 THEN "OK" ELSE NULL

\* the store after SET key value EX ttl NX
redisSetNX(store, h, ttl) ==
  IF dedupSetReply(store, h) = "OK" THEN [store EXCEPT ![h] = ttl] ELSE store

\* the store after SETEX key ttl value: overwrites and restarts the expiry
redisSetex(store, h, ttl) == [store EXCEPT ![h] = ttl]

\* the store after DEL key
redisDel(store, h) == [store EXCEPT ![h] = 0]

\* a catch block that treats a store error as "already processed"
dedupOnError_failClosed == [isDuplicate |-> TRUE, shouldProcess |-> FALSE, threw |-> FALSE]

\* processDeduplication: the catch block
dedupOnError == [isDuplicate |-> FALSE, shouldProcess |-> TRUE, threw |-> FALSE]

\* processDeduplication: the try block, from the reply of SET NX
dedupOnReply(reply) ==
  IF reply = "OK"
    THEN [isDuplicate |-> FALSE, shouldProcess |-> TRUE, threw |-> FALSE]
    ELSE [isDuplicate |-> TRUE, shouldProcess |-> FALSE, threw |-> FALSE]

\* isDuplicate: the catch block
isDuplicateOnError == FALSE

\* isDuplicate: what the call returns
isDuplicateResult(store, up, h) ==
  IF up THEN redisExists(store, h) = 1 ELSE isDuplicateOnError

NoCall == [op |-> "none", hash |-> 0, up |-> TRUE, live |-> FALSE,
           isDuplicate |-> FALSE, shouldProcess |-> FALSE, threw |-> FALSE]

Call(op, h, res) ==
  [op |-> op, hash |-> h, up |-> redisUp, live |-> redis[h] > 0,
   isDuplicate |-> res.isDuplicate, shouldProcess |-> res.shouldProcess,
   threw |-> res.threw]

processDeduplication(h, ttl) ==
  LET res == IF redisUp THEN dedupOnReply(dedupSetReply(redis, h)) ELSE dedupOnError
  IN /\ redis' = IF redisUp THEN redisSetNX(redis, h, ttl) ELSE redis
     /\ lastDedup' = Call("processDeduplication", h, res)
     /\ grants' = IF redisUp /\ res.shouldProcess
                    THEN [grants EXCEPT ![h] = @ + 1] ELSE grants
     /\ UNCHANGED redisUp

isDuplicate(h) ==
  /\ lastDedup' = Call("isDuplicate", h,
        [isDuplicate |-> isDuplicateResult(redis, redisUp, h),
         shouldProcess |-> FALSE, threw |-> FALSE])
  /\ UNCHANGED <<redis, redisUp, grants>>

markAsProcessed(h, ttl) ==
  /\ redis' = IF redisUp THEN redisSetex(redis, h, ttl) ELSE redis
  /\ lastDedup' = Call("markAsProcessed", h,
        [isDuplicate |-> FALSE, shouldProcess |-> FALSE, threw |-> FALSE])
  /\ UNCHANGED <<redisUp, grants>>

removeDedupKey(h) ==
  /\ redis' = IF redisUp THEN redisDel(redis, h) ELSE redis
  /\ grants' = IF redisUp THEN [grants EXCEPT ![h] = 0] ELSE grants
  /\ lastDedup' = Call("removeDedupKey", h,
        [isDuplicate |-> FALSE, shouldProcess |-> FALSE, threw |-> FALSE])
  /\ UNCHANGED redisUp

clearAllDedupKeys ==
  /\ redis' = IF redisUp THEN [h \in DOMAIN redis |-> 0] ELSE redis
  /\ grants' = IF redisUp THEN [h \in DOMAIN grants |-> 0] ELSE grants
  /\ lastDedup' = [NoCall EXCEPT !.op = "clearAllDedupKeys", !.up = redisUp]
  /\ UNCHANGED redisUp

\* one second passes: every live key loses a second, a key at 0 is gone
Tick ==
  /\ \E h \in DOMAIN redis : redis[h] > 0
  /\ redis' = [h \in DOMAIN redis |-> IF redis[h] > 0 THEN redis[h] - 1 ELSE 0]
  /\ grants' = [h \in DOMAIN grants |-> IF redis[h] = 1 THEN 0 ELSE grants[h]]
  /\ lastDedup' = [NoCall EXCEPT !.op = "tick"]
  /\ UNCHANGED redisUp

\* the Redis store becomes unreachable / reachable again
RedisFails == redisUp /\ redisUp' = FALSE /\ UNCHANGED <<redis, lastDedup, grants>>
RedisRecovers == ~redisUp /\ redisUp' = TRUE /\ UNCHANGED <<redis, lastDedup, grants>>

\* ------------------------------------------------------------------------
\* Conflict detection and resolution  (conflict-resolution/index.ts)
\*
\* A GitHub issue is [id, title, body, state, labels, assignees, updated_at];
\* a Jira issue is [key, fields: [summary, description, status: [name,
\* statusCategory: [key]], labels, assignee, updated]]. An absent optional
\* value is NULL. A label name is a number, in the order of the names as
\* strings. A timestamp is an ISO-8601 string, kept as its wall-clock
\* reading and its zone offset: [wall, offset].
\* ------------------------------------------------------------------------
GITHUB_WINS == "GITHUB_WINS"
JIRA_WINS == "JIRA_WINS"
MANUAL == "MANUAL"
LAST_WRITE_WINS == "LAST_WRITE_WINS"
ConflictResolutionStrategy == {GITHUB_WINS, JIRA_WINS, MANUAL, LAST_WRITE_WINS}

\* x || '' of JavaScript for an optional string
OrEmpty(x) == IF x = NULL THEN "" ELSE x

\* Array.prototype.sort() on label names
RECURSIVE InsertSorted(_, _)
InsertSorted(x, sorted) ==
  IF sorted = <<>> THEN <<x>>
  ELSE IF x <= Head(sorted) THEN <<x>> \o sorted
  ELSE <<Head(sorted)>> \o InsertSorted(x, Tail(sorted))

RECURSIVE Sort(_)
Sort(seq) == IF seq = <<>> THEN <<>> ELSE InsertSorted(Head(seq), Sort(Tail(seq)))

\* the place of an assignee name among the names the model uses, in the
\* order Array.prototype.sort() gives strings (by UTF-16 code unit)
NameOrder(name) ==
  CASE name = "Alice" -> 1
    [] name = "Bob" -> 2
    [] name = "alice" -> 3
    [] name = "bob" -> 4

RECURSIVE InsertName(_, _)
InsertName(x, sorted) ==
  IF sorted = <<>> THEN <<x>>
  ELSE IF NameOrder(x) <= NameOrder(Head(sorted)) THEN <<x>> \o sorted
  ELSE <<Head(sorted)>> \o InsertName(x, Tail(sorted))

\* Array.prototype.sort() on assignee names
RECURSIVE SortNames(_)
SortNames(seq) ==
  IF seq = <<>> THEN <<>> ELSE InsertName(Head(seq), SortNames(Tail(seq)))

\* String.prototype.toLowerCase() on the names the model uses
ToLowerCase(name) ==
  CASE name = "Alice" -> "alice"
    [] name = "Bob" -> "bob"
    [] OTHER -> name

\* new Date(iso).getTime(): the instant the timestamp denotes
getTime(ts) == ts.wall - ts.offset

\* detectConflicts: the names of the differing fields, in the order pushed
conflictingFields(githubIssue, jiraIssue) ==
  LET githubBody == OrEmpty(githubIssue.body)
      jiraDescription == OrEmpty(jiraIssue.fields.description)
      githubStatus == IF githubIssue.state = "open" THEN "open" ELSE "closed"
      jiraStatus == jiraIssue.fields.status.statusCategory.key
      githubLabels == Sort(githubIssue.labels)
      jiraLabels == Sort(jiraIssue.fields.labels)
      labelsMatch == /\ Len(githubLabels) = Len(jiraLabels)
                     /\ \A i \in 1..Len(githubLabels) : githubLabels[i] = jiraLabels[i]
      githubAssignees == SortNames(githubIssue.assignees)
      jiraAssignees == IF jiraIssue.fields.assignee # NULL
                         THEN <<jiraIssue.fields.assignee>> ELSE <<>>
      assigneesMatch ==
        /\ Len(githubAssignees) = Len(jiraAssignees)
        /\ \A i \in 1..Len(githubAssignees) :
              /\ i <= Len(jiraAssignees)
              /\ ToLowerCase(githubAssignees[i]) = ToLowerCase(jiraAssignees[i])
  IN (IF githubIssue.title # jiraIssue.fields.summary THEN <<"title">> ELSE <<>>)
     \o (IF githubBody # jiraDescription THEN <<"description">> ELSE <<>>)
     \o (IF githubStatus # jiraStatus THEN <<"status">> ELSE <<>>)
     \o (IF ~labelsMatch THEN <<"labels">> ELSE <<>>)
     \o (IF ~assigneesMatch THEN <<"assignees">> ELSE <<>>)

\* detectConflicts: the ConflictData returned, or null when no field differs
detectConflicts(githubIssue, jiraIssue) ==
  LET conflicts == conflictingFields(githubIssue, jiraIssue)
  IN IF Len(conflicts) = 0 THEN NONE
     ELSE [githubData |-> [title |-> githubIssue.title,
                           body |-> githubIssue.body,
                           state |-> githubIssue.state,
                           labels |-> githubIssue.labels,
                           assignees |-> githubIssue.assignees,
                           updatedAt |-> githubIssue.updated_at],
           jiraData |-> [summary |-> jiraIssue.fields.summary,
                         description |-> jiraIssue.fields.description,
                         status |-> jiraIssue.fields.status.name,
                         labels |-> Sort(jiraIssue.fields.labels),
                         assignee |-> jiraIssue.fields.assignee,
                         updatedAt |-> jiraIssue.fields.updated],
           githubUpdatedAt |-> githubIssue.updated_at,
           jiraUpdatedAt |-> jiraIssue.fields.updated,
           conflictingFields |-> conflicts]

\* detectConflicts sorts jiraIssue.fields.labels in place: the Jira issue
\* the caller holds after the call
jiraIssueAfterDetect(jiraIssue) ==
  [jiraIssue EXCEPT !.fields.labels = Sort(@)]

\* a mapping object is the table of its <<key, value>> entries in insertion
\* order. customMapping is [labelMapping, statusMapping], each <<>> when
\* absent and <<table>> when given
NoCustomMapping == [labelMapping |-> <<>>, statusMapping |-> <<>>]
MapHas(entries, k) == \E i \in 1..Len(entries) : entries[i][1] = k
MapGet(entries, k) ==
  entries[CHOOSE i \in 1..Len(entries) : entries[i][1] = k][2]
MapHasValue(entries, value) == \E i \in 1..Len(entries) : entries[i][2] = value
\* the key of the first entry with this value
MapFindKey(entries, value) ==
  entries[CHOOSE i \in 1..Len(entries) :
            /\ entries[i][2] = value
            /\ \A k \in 1..(i - 1) : entries[k][2] # value][1]

\* a default table that sends both states to 'To Do'
getDefaultStatusMapping_allToDo == << <<"open", "To Do">>, <<"closed", "To Do">> >>

\* getDefaultStatusMapping
getDefaultStatusMapping == << <<"open", "To Do">>, <<"closed", "Done">> >>

\* customMapping?.labelMapping, an absent one read as the empty table
labelMappingOf(customMapping) ==
  IF customMapping.labelMapping = <<>> THEN <<>> ELSE customMapping.labelMapping[1]
\* customMapping?.statusMapping || getDefaultStatusMapping()
statusMappingOf(customMapping) ==
  IF customMapping.statusMapping = <<>>
    THEN getDefaultStatusMapping ELSE customMapping.statusMapping[1]

\* transformGitHubToJiraFormat
transformGitHubToJiraFormat(githubData, customMapping) ==
  LET lm == labelMappingOf(customMapping)
      labels == [i \in 1..Len(githubData.labels) |->
                   IF MapHas(lm, githubData.labels[i])
                     THEN MapGet(lm, githubData.labels[i])
                     ELSE githubData.labels[i]]
      statusMap == statusMappingOf(customMapping)
      jiraStatus == IF MapHas(statusMap, githubData.state)
                      THEN MapGet(statusMap, githubData.state) ELSE "To Do"
  IN [fields |-> [summary |-> githubData.title,
                  description |-> OrEmpty(githubData.body),
                  labels |-> labels,
                  priority |-> [name |-> "Medium"]],
      transitions |-> << [transition |-> [name |-> jiraStatus]] >>]

\* transformJiraToGitHubFormat
transformJiraToGitHubFormat(jiraData, customMapping) ==
  LET lm == labelMappingOf(customMapping)
      labels == [i \in 1..Len(jiraData.labels) |->
                   IF MapHasValue(lm, jiraData.labels[i])
                     THEN MapFindKey(lm, jiraData.labels[i])
                     ELSE jiraData.labels[i]]
      statusMap == statusMappingOf(customMapping)
  IN [title |-> jiraData.summary,
      body |-> OrEmpty(jiraData.description),
      state |-> IF MapHasValue(statusMap, jiraData.status)
                  THEN MapFindKey(statusMap, jiraData.status) ELSE "open",
      labels |-> labels,
      assignees |-> IF jiraData.assignee # NULL
                      THEN << [login |-> jiraData.assignee] >> ELSE <<>>]

\* resolveGitHubWins (requiresManualReview is left out of the result, which
\* its readers take as false)
resolveGitHubWins(conflictData, customMapping) ==
  [resolved |-> TRUE, resolution |-> "github_wins",
   winningData |-> transformGitHubToJiraFormat(conflictData.githubData, customMapping),
   requiresManualReview |-> FALSE,
   conflicts |-> conflictData.conflictingFields]

\* resolveJiraWins
resolveJiraWins(conflictData, customMapping) ==
  [resolved |-> TRUE, resolution |-> "jira_wins",
   winningData |-> transformJiraToGitHubFormat(conflictData.jiraData, customMapping),
   requiresManualReview |-> FALSE,
   conflicts |-> conflictData.conflictingFields]

\* a comparison that lets the Jira side win unless it is strictly older
resolveLastWriteWins_reversed(conflictData, customMapping) ==
  IF getTime(conflictData.githubUpdatedAt) < getTime(conflictData.jiraUpdatedAt)
    THEN resolveGitHubWins(conflictData, customMapping)
    ELSE resolveJiraWins(conflictData, customMapping)

\* resolveLastWriteWins
resolveLastWriteWins(conflictData, customMapping) ==
  LET githubTime == getTime(conflictData.githubUpdatedAt)
      jiraTime == getTime(conflictData.jiraUpdatedAt)
  IN IF githubTime > jiraTime
       THEN resolveGitHubWins(conflictData, customMapping)
       ELSE resolveJiraWins(conflictData, customMapping)

\* a MANUAL case that falls through to the LAST_WRITE_WINS case
resolveManual_fallsThrough(conflictData) ==
  resolveLastWriteWins(conflictData, NoCustomMapping)

\* resolveManual
resolveManual(conflictData) ==
  [resolved |-> FALSE, resolution |-> "manual", winningData |-> NONE,
   requiresManualReview |-> TRUE,
   conflicts |-> conflictData.conflictingFields]

\* resolveConflict
resolveConflict(conflictData, strategy, customMapping) ==
  CASE strategy = GITHUB_WINS -> resolveGitHubWins(conflictData, customMapping)
    [] strategy = JIRA_WINS -> resolveJiraWins(conflictData, customMapping)
    [] strategy = LAST_WRITE_WINS -> resolveLastWriteWins(conflictData, customMapping)
    [] strategy = MANUAL -> resolveManual(conflictData)
    [] OTHER -> resolveLastWriteWins(conflictData, customMapping)

\* the inputs of the conflict engine: GitHub and Jira snapshots of an issue
\* (a list may name a label twice: neither schema asks for distinct labels)
LabelLists == {<<>>, <<1, 1>>, <<2, 1>>}
JiraLabelLists == {<<>>, <<1>>, <<1, 2>>, <<2, 1>>}
GitHubIssueInputs ==
  [id : {1}, title : {"GitHub Title", "Jira Title"}, body : {NULL, "text"},
   state : {"open", "closed"}, labels : LabelLists,
   assignees : {<<>>, <<"Alice">>},
   updated_at : [wall : 1..MaxClock, offset : {0}]]
JiraIssueInputs ==
  [key : {1},
   fields : [summary : {"GitHub Title", "Jira Title"}, description : {NULL, "text"},
             status : {[name |-> "To Do", statusCategory |-> [key |-> "new"]],
                       [name |-> "In Progress",
                        statusCategory |-> [key |-> "indeterminate"]],
                       [name |-> "Done", statusCategory |-> [key |-> "done"]]},
             labels : JiraLabelLists, assignee : {NULL, "alice"},
             updated : [wall : 1..MaxClock, offset : 0..MaxOffset]]]

NoConflictCall == [stage |-> "none"]

\* detectConflicts(githubIssue, jiraIssue) is called on the inputs;
\* conflict.jiraIssue is the object the caller passed as it is after the call,
\* conflict.jiraIssueGiven its content when the call was made
DetectConflicts ==
  /\ conflict.stage = "input"
  /\ conflict' = [conflict EXCEPT
        !.stage = "detected",
        !.conflictData = detectConflicts(conflict.githubIssue, conflict.jiraIssue),
        !.jiraIssue = jiraIssueAfterDetect(@)]

\* resolveConflict(conflictData, strategy) is called on the report
ResolveConflict(strategy) ==
  /\ conflict.stage = "detected"
  /\ conflict.conflictData # NONE
  /\ conflict' = [conflict EXCEPT
        !.stage = "resolved",
        !.strategy = strategy,
        !.resolution = resolveConflict(conflict.conflictData, strategy, NoCustomMapping)]

\* ------------------------------------------------------------------------
\* Queues  (queue/index.ts)
\* ------------------------------------------------------------------------
GITHUB_TO_JIRA == "GITHUB_TO_JIRA"
JIRA_TO_GITHUB == "JIRA_TO_GITHUB"
SyncDirection == {GITHUB_TO_JIRA, JIRA_TO_GITHUB}

ISSUE_CREATED == "ISSUE_CREATED"
ISSUE_UPDATED == "ISSUE_UPDATED"
ISSUE_DELETED == "ISSUE_DELETED"
LABEL_CHANGED == "LABEL_CHANGED"
ASSIGNEE_CHANGED == "ASSIGNEE_CHANGED"
COMMENT_CREATED == "COMMENT_CREATED"
COMMENT_UPDATED == "COMMENT_UPDATED"
STATUS_CHANGED == "STATUS_CHANGED"
\* the event types of the jobs the model enqueues
EnqueuedEventTypes == {ISSUE_CREATED, ISSUE_UPDATED, ISSUE_DELETED}
\* the event types of the comment and single-facet jobs, with ISSUE_CREATED
\* for the job that syncs the parent issue first
FacetEventTypes == {ISSUE_CREATED, COMMENT_CREATED, COMMENT_UPDATED,
                    LABEL_CHANGED, ASSIGNEE_CHANGED, STATUS_CHANGED}

\* sourceData as handleIssueEvent builds it: the issue, no comment
IssueSourceData == [issue |-> TRUE, comment |-> FALSE]
\* sourceData as the GitHub handleCommentEvent builds it: comment and issue
CommentSourceData == [issue |-> TRUE, comment |-> TRUE]
\* sourceData as the Jira handleCommentEvent builds it: comment and issueKey,
\* no issue
JiraCommentSourceData == [issue |-> FALSE, comment |-> TRUE]

QUEUE_NAMES == [GITHUB_SYNC |-> "github-sync", JIRA_SYNC |-> "jira-sync",
                SYNC_WORKER |-> "sync-worker", CLEANUP |-> "cleanup"]

\* ids of the source entities: GitHub issue ids, and Jira issue keys
Sources == 1..NumSources

\* getConfig().queue with the defaults of config.ts
QUEUE_CONCURRENCY == 10
QUEUE_MAX_RETRIES == 3
QUEUE_RETRY_DELAY == 5000

\* createQueue: defaultJobOptions of every queue it makes
defaultJobOptions ==
  [attempts |-> QUEUE_MAX_RETRIES,
   backoff |-> [type |-> "exponential", delay |-> QUEUE_RETRY_DELAY]]

\* every job is added to the one queue 'github-sync'
queueForDirection_oneQueue(direction) == QUEUE_NAMES.GITHUB_SYNC

\* addSyncJob: the queue a job of this direction is added to
queueForDirection(direction) ==
  IF direction = GITHUB_TO_JIRA THEN QUEUE_NAMES.GITHUB_SYNC ELSE QUEUE_NAMES.JIRA_SYNC

\* createWorker: the name of the queue the Worker is constructed on
workerQueueName == "sync-worker"

\* a job as queue.add stores it: waiting, no attempt made
NewJob(queue, direction, eventType, sourceId, sourceData, via) ==
  [queue |-> queue, direction |-> direction, eventType |-> eventType,
   sourceId |-> sourceId, sourceData |-> sourceData,
   via |-> via, opts |-> defaultJobOptions,
   state |-> "waiting", attemptsMade |-> 0, delays |-> <<>>, stalledCounter |-> 0,
   handler |-> "none", pc |-> "idle", key |-> 0, result |-> "none",
   error |-> "", stepFailed |-> FALSE, hung |-> FALSE,
   thrown |-> "", samples |-> <<>>, delegations |-> 0,
   creates |-> 0, updates |-> 0, stores |-> 0, sent |-> NONE, resolution |-> NONE,
   mappedAtStart |-> FALSE]

\* addSyncJob(direction, eventType, sourceId, sourceData)
addSyncJob(direction, eventType, sourceId, sourceData) ==
  /\ jobs' = Append(jobs, NewJob(queueForDirection(direction), direction,
                                 eventType, sourceId, sourceData, "addSyncJob"))
  /\ UNCHANGED <<jiraIssues, githubIssues, storedMappings>>

\* a producer adds a job through createQueue(QUEUE_NAMES.SYNC_WORKER)
createQueueAdd(direction, eventType, sourceId, sourceData) ==
  /\ jobs' = Append(jobs, NewJob(QUEUE_NAMES.SYNC_WORKER, direction,
                                 eventType, sourceId, sourceData, "createQueue"))
  /\ UNCHANGED <<jiraIssues, githubIssues, storedMappings>>

\* pauseQueue / resumeQueue / cleanOldJobs / drainQueue: the queue a queue
\* name selects; any name but 'github-sync' selects jiraSyncQueue
queueByName(queueName) ==
  IF queueName = QUEUE_NAMES.GITHUB_SYNC THEN QUEUE_NAMES.GITHUB_SYNC
                                         ELSE QUEUE_NAMES.JIRA_SYNC

\* BullMQ's Queue.drain(): it removes the jobs of the queue that are waiting;
\* active, delayed, completed and failed jobs stay
queueDrain(queue, job) ==
  IF job.queue = queue /\ job.state = "waiting"
    THEN [job EXCEPT !.state = "removed"]
    ELSE job

\* drainQueue(queueName)
drainQueue(queueName) ==
  /\ jobs' = [j \in 1..Len(jobs) |-> queueDrain(queueByName(queueName), jobs[j])]
  /\ UNCHANGED <<jiraIssues, githubIssues, storedMappings>>

JobIds == 1..Len(jobs)
ActiveJobs == {j \in JobIds : jobs[j].state = "active"}

\* ------------------------------------------------------------------------
\* Sync engine  (core/sync-engine.ts)
\* ------------------------------------------------------------------------

\* getJiraKeyForGitHubIssue: returns null. A key or number is a positive
\* integer, and 0 is the null the callers test with if (!jiraKey)
getJiraKeyForGitHubIssue(githubIssueId) == 0

\* getGitHubNumberForJiraIssue: returns null
getGitHubNumberForJiraIssue(jiraKey) == 0

\* the correlation lookup the handlers of a direction start with
lookupTarget(direction, sourceId) ==
  IF direction = GITHUB_TO_JIRA
    THEN getJiraKeyForGitHubIssue(sourceId)
    ELSE getGitHubNumberForJiraIssue(sourceId)

\* the key Jira gives the next issue created, the number GitHub gives the next
NextJiraKey == NumSources + Len(jiraIssues) + 1
NextGitHubNumber == NumSources + Len(githubIssues) + 1
\* the place of a created issue in jiraIssues / githubIssues
TargetIndex(key) == key - NumSources

\* whether storeMapping has been handed a pair for this source entity
HasStoredMapping(direction, sourceId) ==
  IF direction = GITHUB_TO_JIRA
    THEN \E m \in storedMappings : m[1] = sourceId
    ELSE \E m \in storedMappings : m[2] = sourceId

\* sourceData.issue of a GITHUB_TO_JIRA job: the GitHub issue of the webhook
GitHubSourceIssue(id) ==
  [id |-> id, title |-> "GitHub Title", body |-> "text", state |-> "open",
   labels |-> <<2, 1>>, assignees |-> <<>>,
   updated_at |-> [wall |-> 2, offset |-> 0]]

\* sourceData.issue of a JIRA_TO_GITHUB job: the Jira issue of the webhook
JiraSourceIssue(key) ==
  [key |-> key,
   fields |-> [summary |-> "Jira Title", description |-> NULL,
               status |-> [name |-> "To Do", statusCategory |-> [key |-> "new"]],
               labels |-> <<2, 1>>, assignee |-> NULL,
               updated |-> [wall |-> 2, offset |-> 0]]]

\* syncGitHubIssueCreated: the data handed to jiraClient.createIssue
githubCreateFields(githubIssue) ==
  [summary |-> githubIssue.title,
   description |-> OrEmpty(githubIssue.body),
   labels |-> githubIssue.labels]

\* syncGitHubIssueUpdated: the data handed to jiraClient.updateIssue
githubUpdateFields(githubIssue) ==
  [summary |-> githubIssue.title,
   description |-> OrEmpty(githubIssue.body),
   labels |-> githubIssue.labels]

\* syncJiraIssueCreated: the data handed to githubClient.createIssue
jiraCreateFields(jiraIssue) ==
  [title |-> jiraIssue.fields.summary,
   body |-> OrEmpty(jiraIssue.fields.description),
   labels |-> jiraIssue.fields.labels]

\* syncJiraIssueUpdated: the data handed to githubClient.updateIssue
jiraUpdateFields(jiraIssue) ==
  [title |-> jiraIssue.fields.summary,
   body |-> OrEmpty(jiraIssue.fields.description),
   labels |-> jiraIssue.fields.labels,
   state |-> IF jiraIssue.fields.status.statusCategory.key = "done"
               THEN "closed" ELSE "open"]

\* config.sync.conflictResolution as loadConfig sets it
configConflictResolution == LAST_WRITE_WINS

\* loadConfig: the part of the AppConfig the engine reads
loadConfig ==
  [sync |-> [conflictResolution |-> configConflictResolution],
   queue |-> [concurrency |-> QUEUE_CONCURRENCY]]

\* syncGitHubIssueUpdated / syncJiraIssueUpdated: the resolution computed from
\* the two issues under config.sync.conflictResolution, null without conflict
updateResolution(githubIssue, jiraIssue) ==
  LET conflictData == detectConflicts(githubIssue, jiraIssue)
  IN IF conflictData # NONE
       THEN resolveConflict(conflictData, config.sync.conflictResolution, NoCustomMapping)
       ELSE NONE

\* JiraClient.createIssue: the issue Jira holds after POST /issue
jiraCreateIssue(from, data) ==
  [from |-> from, summary |-> data.summary, description |-> OrEmpty(data.description),
   labels |-> data.labels, status |-> "To Do"]

\* JiraClient.updateIssue: summary and description are sent only when
\* non-empty, labels whenever given
jiraUpdateIssue(issue, data) ==
  [issue EXCEPT !.summary = IF data.summary # "" THEN data.summary ELSE @,
                !.description = IF data.description # "" THEN data.description ELSE @,
                !.labels = data.labels]

\* JiraClient.getIssue: the issue as GET /issue/{key} returns it
jiraGetIssue(key) ==
  LET issue == jiraIssues[TargetIndex(key)]
  IN [key |-> key,
      fields |-> [summary |-> issue.summary, description |-> issue.description,
                  status |-> [name |-> issue.status,
                              statusCategory |->
                                [key |-> IF issue.status = "Done" THEN "done" ELSE "new"]],
                  labels |-> issue.labels, assignee |-> NULL,
                  updated |-> [wall |-> 1, offset |-> 0]]]

\* JiraClient.getTransitions: the transitions of the project's workflow
jiraTransitions == << [id |-> "11", to |-> [name |-> "In Progress"]],
                      [id |-> "31", to |-> [name |-> "Done"]] >>

\* transitions.find(t => t.to.name === 'Done')
closeTransition ==
  IF \E i \in 1..Len(jiraTransitions) : jiraTransitions[i].to.name = "Done"
    THEN jiraTransitions[CHOOSE i \in 1..Len(jiraTransitions) :
                           /\ jiraTransitions[i].to.name = "Done"
                           /\ \A k \in 1..(i - 1) : jiraTransitions[k].to.name # "Done"]
    ELSE NONE

\* GitHubClient.createIssue: the issue GitHub holds after POST .../issues
githubCreateIssue(from, data) ==
  [from |-> from, title |-> data.title, body |-> data.body,
   labels |-> data.labels, state |-> "open"]

\* GitHubClient.updateIssue: PATCH replaces every field given
githubUpdateIssue(issue, data) ==
  [issue EXCEPT !.title = data.title, !.body = data.body,
                !.labels = data.labels, !.state = data.state]

\* GitHubClient.updateIssue given only a state: PATCH leaves the other fields
githubUpdateIssueState(issue, data) == [issue EXCEPT !.state = data.state]

\* syncGitHubIssueDeleted: the data handed to jiraClient.updateIssue. The
\* labels 'archived' and 'github-deleted' are the names 8 and 9; summary and
\* description are not given, which updateIssue reads like the empty string
githubDeletedFields == [summary |-> "", description |-> "", labels |-> <<8, 9>>]

\* syncJiraIssueDeleted: the data handed to githubClient.updateIssue
jiraDeletedFields == [state |-> "closed"]

\* storeConflictForReview(entityId, conflictData): it writes the conflict to
\* the log only, so the records held for review stay as they were
storeConflictForReview(records, entityId, conflictData) == records

\* the conflict records held for review: no store exists, and neither update
\* handler calls storeConflictForReview
conflictsForReview == {}

\* GitHubClient.getIssue
githubGetIssue(number) ==
  LET issue == githubIssues[TargetIndex(number)]
  IN [id |-> number, title |-> issue.title, body |-> issue.body, state |-> issue.state,
      labels |-> issue.labels, assignees |-> <<>>,
      updated_at |-> [wall |-> 1, offset |-> 0]]

\* syncGitHubToJira / syncJiraToGitHub: the handler an event type is sent to
\* syncGitHubLabelsChanged: the data handed to jiraClient.updateIssue, the
\* labels alone
githubLabelFields(githubIssue) ==
  [summary |-> "", description |-> "", labels |-> githubIssue.labels]

\* what a failing call of a client throws: the AxiosError it logs and rethrows
callError == [isError |-> TRUE, message |-> "Request failed with status code 500"]

\* the not-found message of a direction's comment and facet handlers
notFoundError(direction) ==
  IF direction = GITHUB_TO_JIRA THEN "Jira issue not found" ELSE "GitHub issue not found"

\* the switch of syncGitHubToJira and of syncJiraToGitHub: the handler an
\* event type is sent to. The Jira switch has no case for LABEL_CHANGED and
\* ASSIGNEE_CHANGED, and neither has one for STATUS_CHANGED
handlerFor(direction, eventType) ==
  CASE eventType = ISSUE_CREATED -> "created"
    [] eventType = ISSUE_UPDATED -> "updated"
    [] eventType = ISSUE_DELETED -> "deleted"
    [] eventType = COMMENT_CREATED -> "commentCreated"
    [] eventType = COMMENT_UPDATED -> "commentUpdated"
    [] eventType = LABEL_CHANGED /\ direction = GITHUB_TO_JIRA -> "labelsChanged"
    [] eventType = ASSIGNEE_CHANGED /\ direction = GITHUB_TO_JIRA -> "assigneeChanged"
    [] OTHER -> "unknown"

\* a handler returns {success: false, error} of its own
failureResult(job, error) ==
  [job EXCEPT !.pc = "return", !.result = "failure", !.error = error]

\* a handler returns {success: true}
successResult(job) == [job EXCEPT !.pc = "return", !.result = "success"]

\* a catch of processSync that answers success for what was thrown
processSyncCatch_swallows(job, thrown) == successResult(job)

\* the catch of processSync: whatever the handler threw becomes
\* {success: false, sourceId, error: errorMessage}
processSyncCatch(job, thrown) ==
  failureResult(job, IF thrown.isError THEN thrown.message ELSE "Unknown error")

\* what reading a member of an undefined issue or comment throws
typeError == [isError |-> TRUE, message |-> "Cannot read properties of undefined"]

\* a pair of handlers that hand the issue to each other whatever the lookup
\* answered
delegates_always(handler, key) == TRUE

\* whether the handler hands the issue to the other one: the created-handler
\* when the lookup found a correlation (already synced, update instead), the
\* updated-handler when it found none (create if it does not exist)
delegates(handler, key) ==
  \/ handler = "created" /\ key # 0
  \/ handler = "updated" /\ key = 0

\* syncGitHubIssueCreated / syncGitHubIssueUpdated / syncGitHubIssueDeleted and
\* their Jira counterparts up to the first external call: the awaited lookup
\* and the branch taken on its answer
EngineLookup(j) ==
  /\ j \in JobIds
  /\ jobs[j].state = "active" /\ jobs[j].pc = "lookup"
  /\ LET job == jobs[j]
         key == lookupTarget(job.direction, job.sourceId)
     IN jobs' = [jobs EXCEPT ![j] =
          IF ~job.sourceData.issue
            \* issue.id / issue.key is read off an undefined issue
            THEN [processSyncCatch(job, typeError) EXCEPT !.stepFailed = TRUE]
          ELSE IF job.handler \in {"commentCreated", "commentUpdated"}
            THEN IF key = 0
                   THEN IF job.sourceData.comment
                          THEN failureResult(job, notFoundError(job.direction))
                          \* comment.id is read off an undefined comment
                          ELSE [processSyncCatch(job, typeError) EXCEPT !.stepFailed = TRUE]
                 ELSE IF ~job.sourceData.comment
                   THEN [processSyncCatch(job, typeError) EXCEPT !.stepFailed = TRUE]
                 ELSE IF job.handler = "commentCreated"
                   THEN [job EXCEPT !.pc = "createComment", !.key = key]
                   ELSE [job EXCEPT !.pc = "getComments", !.key = key]
          ELSE IF job.handler = "labelsChanged"
            THEN IF key = 0
                   THEN failureResult(job, notFoundError(job.direction))
                   ELSE [job EXCEPT !.pc = "updateLabels", !.key = key]
          ELSE IF job.handler = "assigneeChanged"
            THEN IF key = 0
                   THEN failureResult(job, notFoundError(job.direction))
                   \* the assignees are logged only
                   ELSE [successResult(job) EXCEPT !.key = key]
          ELSE IF job.handler = "deleted"
            THEN IF key = 0
                   THEN [job EXCEPT !.pc = "return", !.result = "success"]
                   ELSE [job EXCEPT !.pc = "archive", !.key = key]
          ELSE IF delegates(job.handler, key)
            THEN [job EXCEPT !.handler = IF @ = "created" THEN "updated" ELSE "created",
                             !.delegations = @ + 1]
          ELSE IF job.handler = "created"
            THEN [job EXCEPT !.pc = "create"]
            ELSE [job EXCEPT !.pc = "getIssue", !.key = key]]
  /\ UNCHANGED <<jiraIssues, githubIssues, storedMappings>>

\* the handler's external call on the Jira side (GITHUB_TO_JIRA) has answered:
\* createIssue, getIssue, updateIssue, getTransitions, transitionIssue
JiraCallReturns(j) ==
  LET job == jobs[j]
      githubIssue == GitHubSourceIssue(job.sourceId)
  IN CASE job.pc = "create" ->
            /\ jiraIssues' = Append(jiraIssues,
                                jiraCreateIssue(job.sourceId, githubCreateFields(githubIssue)))
            /\ jobs' = [jobs EXCEPT ![j] =
                  [job EXCEPT !.pc = "store", !.creates = @ + 1, !.key = NextJiraKey,
                              !.sent = githubCreateFields(githubIssue)]]
       [] job.pc = "getIssue" ->
            /\ jobs' = [jobs EXCEPT ![j] =
                  [job EXCEPT !.pc = "update",
                     !.resolution = updateResolution(githubIssue, jiraGetIssue(job.key))]]
            /\ UNCHANGED jiraIssues
       [] job.pc = "update" ->
            /\ jiraIssues' = [jiraIssues EXCEPT ![TargetIndex(job.key)] =
                                jiraUpdateIssue(@, githubUpdateFields(githubIssue))]
            /\ jobs' = [jobs EXCEPT ![j] =
                  IF githubIssue.state = "closed"
                    THEN [job EXCEPT !.pc = "getTransitions", !.updates = @ + 1,
                                     !.sent = githubUpdateFields(githubIssue)]
                    ELSE [job EXCEPT !.pc = "return", !.result = "success",
                                     !.updates = @ + 1,
                                     !.sent = githubUpdateFields(githubIssue)]]
       [] job.pc = "getTransitions" ->
            /\ jobs' = [jobs EXCEPT ![j] =
                  IF closeTransition # NONE
                    THEN [job EXCEPT !.pc = "transitionIssue"]
                    ELSE [job EXCEPT !.pc = "return", !.result = "success"]]
            /\ UNCHANGED jiraIssues
       [] job.pc = "transitionIssue" ->
            /\ jiraIssues' = [jiraIssues EXCEPT ![TargetIndex(job.key)].status =
                                closeTransition.to.name]
            /\ jobs' = [jobs EXCEPT ![j] = [job EXCEPT !.pc = "return", !.result = "success"]]
       [] job.pc = "archive" ->
            /\ jiraIssues' = [jiraIssues EXCEPT ![TargetIndex(job.key)] =
                                jiraUpdateIssue(@, githubDeletedFields)]
            /\ jobs' = [jobs EXCEPT ![j] =
                  [job EXCEPT !.pc = "return", !.result = "success", !.updates = @ + 1,
                              !.sent = githubDeletedFields]]
       [] job.pc = "updateLabels" ->
            /\ jiraIssues' = [jiraIssues EXCEPT ![TargetIndex(job.key)] =
                                jiraUpdateIssue(@, githubLabelFields(githubIssue))]
            /\ jobs' = [jobs EXCEPT ![j] =
                  [job EXCEPT !.pc = "return", !.result = "success", !.updates = @ + 1,
                              !.sent = githubLabelFields(githubIssue)]]
       [] job.pc = "createComment" ->
            \* jiraClient.createComment: the comment is added to the issue's
            \* comments, which are no field of the issue
            /\ jobs' = [jobs EXCEPT ![j] =
                  [job EXCEPT !.pc = "return", !.result = "success", !.creates = @ + 1]]
            /\ UNCHANGED jiraIssues
       [] job.pc = "getComments" ->
            \* comments.find(...): whether a comment names the author is the
            \* tracker's answer; found, it is updated
            /\ \E found \in BOOLEAN :
                  jobs' = [jobs EXCEPT ![j] =
                    IF found THEN [job EXCEPT !.pc = "updateComment"]
                             ELSE successResult(job)]
            /\ UNCHANGED jiraIssues
       [] job.pc = "updateComment" ->
            /\ jobs' = [jobs EXCEPT ![j] =
                  [job EXCEPT !.pc = "return", !.result = "success", !.updates = @ + 1]]
            /\ UNCHANGED jiraIssues

\* the handler's external call on the GitHub side (JIRA_TO_GITHUB) has
\* answered: createIssue, getIssue, updateIssue
GitHubCallReturns(j) ==
  LET job == jobs[j]
      jiraIssue == JiraSourceIssue(job.sourceId)
  IN CASE job.pc = "create" ->
            /\ githubIssues' = Append(githubIssues,
                                  githubCreateIssue(job.sourceId, jiraCreateFields(jiraIssue)))
            /\ jobs' = [jobs EXCEPT ![j] =
                  [job EXCEPT !.pc = "store", !.creates = @ + 1, !.key = NextGitHubNumber,
                              !.sent = jiraCreateFields(jiraIssue)]]
       [] job.pc = "getIssue" ->
            /\ jobs' = [jobs EXCEPT ![j] =
                  [job EXCEPT !.pc = "update",
                     !.resolution = updateResolution(githubGetIssue(job.key), jiraIssue)]]
            /\ UNCHANGED githubIssues
       [] job.pc = "update" ->
            /\ githubIssues' = [githubIssues EXCEPT ![TargetIndex(job.key)] =
                                  githubUpdateIssue(@, jiraUpdateFields(jiraIssue))]
            /\ jobs' = [jobs EXCEPT ![j] =
                  [job EXCEPT !.pc = "return", !.result = "success", !.updates = @ + 1,
                              !.sent = jiraUpdateFields(jiraIssue)]]
       [] job.pc = "archive" ->
            /\ githubIssues' = [githubIssues EXCEPT ![TargetIndex(job.key)] =
                                  githubUpdateIssueState(@, jiraDeletedFields)]
            /\ jobs' = [jobs EXCEPT ![j] =
                  [job EXCEPT !.pc = "return", !.result = "success", !.updates = @ + 1,
                              !.sent = jiraDeletedFields]]
       [] job.pc = "createComment" ->
            \* githubClient.createComment: the comment is added to the issue's
            \* comments, which are no field of the issue
            /\ jobs' = [jobs EXCEPT ![j] =
                  [job EXCEPT !.pc = "return", !.result = "success", !.creates = @ + 1]]
            /\ UNCHANGED githubIssues
       [] job.pc = "getComments" ->
            \* syncJiraCommentUpdated reads the comments and returns
            /\ jobs' = [jobs EXCEPT ![j] = successResult(job)]
            /\ UNCHANGED githubIssues

\* the timeout of the axios instances the two clients create: axios.create
\* is given baseURL and headers only, and axios's default 0 means no timeout
clientTimeout == 0

\* the pc values at which the running handler awaits a call of a client
CallSites == {"create", "getIssue", "update", "getTransitions", "transitionIssue",
              "archive", "updateLabels", "createComment", "getComments",
              "updateComment"}

\* the tracker never answers the call the running handler awaits
CallNeverResponds(j) ==
  /\ j \in JobIds
  /\ jobs[j].state = "active"
  /\ jobs[j].pc \in CallSites
  /\ ~jobs[j].hung
  /\ jobs' = [jobs EXCEPT ![j].hung = TRUE]
  /\ UNCHANGED <<jiraIssues, githubIssues, storedMappings>>

\* the next external call of the running handler. ok = FALSE: the call
\* throws, processSync catches it and returns {success: false, error}. A
\* call that never responds ends only by the client's timeout, as a throw
EngineCall(j, ok) ==
  /\ j \in JobIds
  /\ jobs[j].state = "active"
  /\ jobs[j].hung => (clientTimeout > 0 /\ ~ok)
  /\ jobs[j].pc \in CallSites
  /\ IF ~ok
       THEN /\ jobs' = [jobs EXCEPT ![j] =
                  [processSyncCatch(@, callError) EXCEPT !.stepFailed = TRUE, !.hung = FALSE]]
            /\ UNCHANGED <<jiraIssues, githubIssues>>
       ELSE IF jobs[j].direction = GITHUB_TO_JIRA
              THEN JiraCallReturns(j) /\ UNCHANGED githubIssues
              ELSE GitHubCallReturns(j) /\ UNCHANGED jiraIssues
  /\ UNCHANGED storedMappings

\* storeMapping(githubId, jiraKey), then the handler returns {success: true}
EngineStoreMapping(j) ==
  /\ j \in JobIds
  /\ jobs[j].state = "active" /\ jobs[j].pc = "store"
  /\ LET job == jobs[j]
     IN /\ storedMappings' = storedMappings \cup
             {IF job.direction = GITHUB_TO_JIRA
                THEN <<job.sourceId, job.key>> ELSE <<job.key, job.sourceId>>}
        /\ jobs' = [jobs EXCEPT ![j] =
              [job EXCEPT !.pc = "return", !.result = "success", !.stores = @ + 1]]
  /\ UNCHANGED <<jiraIssues, githubIssues>>

\* ------------------------------------------------------------------------
\* Sync worker  (queue/worker.ts) on BullMQ
\* ------------------------------------------------------------------------
RECURSIVE Pow2(_)
Pow2(n) == IF n <= 0 THEN 1 ELSE 2 * Pow2(n - 1)

\* BullMQ's built-in 'exponential' backoff that createQueue selects:
\* 2^(attemptsMade - 1) * delay
backoffDelay(backoff, attemptsMade) ==
  IF backoff.type = "exponential"
    THEN Pow2(attemptsMade - 1) * backoff.delay
    ELSE backoff.delay

\* a retry rule that allows two attempts more than opts.attempts
shouldRetry_twoMore(opts, attemptsMade) == attemptsMade < opts.attempts + 2

\* BullMQ: a failed attempt is retried while attemptsMade < opts.attempts
shouldRetry(opts, attemptsMade) == attemptsMade < opts.attempts

\* BullMQ's maxStalledCount default: a job stalled more often than this fails
MAX_STALLED_COUNT == 1

\* the Worker options of createWorker: limiter {max: 10, duration: 1000}
LIMITER_MAX == 10

\* a Worker that takes a job whatever the number it is running
hasFreeSlot_unbounded(active, concurrency) == TRUE

\* BullMQ: the Worker takes a job only while it runs fewer than its
\* concurrency option
hasFreeSlot(active, concurrency) == active < concurrency

\* BullMQ: no job is started once limiter.max jobs were started in the window
withinRateLimit(started, max) == started < max

\* the fields of a job that only mean something while a worker runs it
Parked(job) ==
  [job EXCEPT !.handler = "none", !.pc = "idle", !.key = 0, !.result = "none",
              !.hung = FALSE, !.delegations = 0]

\* the Worker takes a waiting job of its queue and calls the processor, which
\* calls syncEngine.processSync(direction, eventType, sourceData)
WorkerFetch(j) ==
  /\ j \in JobIds
  /\ jobs[j].state = "waiting"
  /\ jobs[j].queue = workerQueueName
  /\ hasFreeSlot(Cardinality(ActiveJobs), config.queue.concurrency)
  /\ LET job == jobs[j]
         h == handlerFor(job.direction, job.eventType)
         started == [job EXCEPT !.state = "active", !.handler = h, !.pc = "lookup",
                       !.result = "none", !.error = "", !.stepFailed = FALSE,
                       !.sent = NONE, !.resolution = NONE,
                       !.mappedAtStart = HasStoredMapping(job.direction, job.sourceId)]
     IN jobs' = [jobs EXCEPT ![j] =
          IF ~job.sourceData.issue /\ ~job.sourceData.comment
            THEN failureResult(started, "No issue or comment data")
          ELSE IF h = "unknown"
            THEN failureResult(started, "Unknown event type")
            ELSE started]
  /\ UNCHANGED <<jiraIssues, githubIssues, storedMappings>>

\* the same under the Worker's rate limiter, which counts the job it starts.
\* Fewer than LIMITER_MAX jobs start where at most MaxJobs jobs exist, so
\* only the specification of the limits counts them.
RateLimitedFetch(j) ==
  /\ withinRateLimit(limiter, LIMITER_MAX)
  /\ WorkerFetch(j)
  /\ limiter' = limiter + 1

\* limiter.duration has passed since the window's first job: the count is gone
WindowExpires ==
  /\ limiter > 0
  /\ limiter' = 0
  /\ UNCHANGED <<dedupVars, syncVars, deliveries, conflict, config>>

\* recordSyncJob(direction, eventType, status, durationMs): syncJobTotal gets
\* one more sample of the status, and errorsTotal one more for 'failed'
recordSyncJob(samples, status) == Append(samples, status)

\* a processor that returns whatever processSync returned
processor_returnsFailure(job) ==
  [returned |-> TRUE, thrown |-> "",
   samples |-> recordSyncJob(<<>>, IF job.result = "success" THEN "success" ELSE "failed")]

\* the processor of createWorker once processSync has returned: it records
\* the result, and for success=false it throws new Error(result.error) inside
\* its own try, so its catch records 'failed' again and rethrows
processor(job) ==
  LET inTry == recordSyncJob(<<>>, IF job.result = "success" THEN "success" ELSE "failed")
  IN IF job.result = "success"
       THEN [returned |-> TRUE, thrown |-> "", samples |-> inTry]
       ELSE [returned |-> FALSE, thrown |-> job.error,
             samples |-> recordSyncJob(inTry, "failed")]

\* processSync returned success: the processor returns and BullMQ completes the job
WorkerCompletes(j) ==
  /\ j \in JobIds
  /\ jobs[j].state = "active" /\ jobs[j].pc = "return"
  /\ processor(jobs[j]).returned
  /\ jobs' = [jobs EXCEPT ![j] =
        [Parked(jobs[j]) EXCEPT !.state = "completed", !.attemptsMade = @ + 1,
                                !.thrown = processor(jobs[j]).thrown,
                                !.samples = processor(jobs[j]).samples]]
  /\ UNCHANGED <<jiraIssues, githubIssues, storedMappings>>

\* processSync returned success=false: the processor throws and BullMQ either
\* delays the job for a retry or moves it to failed
WorkerFails(j) ==
  /\ j \in JobIds
  /\ jobs[j].state = "active" /\ jobs[j].pc = "return"
  /\ ~processor(jobs[j]).returned
  /\ LET job == jobs[j]
         made == job.attemptsMade + 1
         out == processor(job)
     IN jobs' = [jobs EXCEPT ![j] =
          IF shouldRetry(job.opts, made)
            THEN [Parked(job) EXCEPT !.state = "delayed", !.attemptsMade = made,
                     !.delays = Append(@, backoffDelay(job.opts.backoff, made)),
                     !.thrown = out.thrown, !.samples = out.samples]
            ELSE [Parked(job) EXCEPT !.state = "failed", !.attemptsMade = made,
                     !.thrown = out.thrown, !.samples = out.samples]]
  /\ UNCHANGED <<jiraIssues, githubIssues, storedMappings>>

\* the backoff delay of a delayed job has passed: BullMQ moves it back to waiting
Promote(j) ==
  /\ j \in JobIds
  /\ jobs[j].state = "delayed"
  /\ jobs' = [jobs EXCEPT ![j].state = "waiting"]
  /\ UNCHANGED <<jiraIssues, githubIssues, storedMappings>>

\* the worker running an active job dies; BullMQ's stalled check puts the job
\* back to waiting, or fails it once it stalled more than MAX_STALLED_COUNT
\* times. The worker's own 'stalled' handler only logs.
WorkerStalls(j) ==
  /\ j \in JobIds
  /\ jobs[j].state = "active"
  /\ LET job == jobs[j]
     IN jobs' = [jobs EXCEPT ![j] =
          IF job.stalledCounter + 1 > MAX_STALLED_COUNT
            THEN [Parked(job) EXCEPT !.state = "failed", !.stalledCounter = @ + 1]
            ELSE [Parked(job) EXCEPT !.state = "waiting", !.stalledCounter = @ + 1]]
  /\ UNCHANGED <<jiraIssues, githubIssues, storedMappings>>

\* ------------------------------------------------------------------------
\* Webhook handlers  (webhooks/github.ts: the GitHub and the Jira handler)
\*
\* A GitHub payload is [valid, action, issue, comment, repository, sender],
\* a Jira payload [valid, webhookEvent, issue, comment, issueKey, user];
\* valid says whether the schema's parse accepts it. An absent member is
\* NONE, an absent issueKey 0. A string that enters the hash is the sequence of its UTF-16 code
\* units.
\* ------------------------------------------------------------------------
\* charCodeAt over the strings the payloads of the model are made of
CharCodes(str) ==
  CASE str = "github" -> <<103, 105, 116, 104, 117, 98>>
    [] str = "jira" -> <<106, 105, 114, 97>>
    [] str = ":" -> <<58>>
    [] str = "opened" -> <<111, 112, 101, 110, 101, 100>>
    [] str = "edited" -> <<101, 100, 105, 116, 101, 100>>
    [] str = "deleted" -> <<100, 101, 108, 101, 116, 101, 100>>
    [] str = "created" -> <<99, 114, 101, 97, 116, 101, 100>>
    [] str = "comment_created" ->
         <<99, 111, 109, 109, 101, 110, 116, 95, 99, 114, 101, 97, 116, 101, 100>>
    [] str = "org/repo" -> <<111, 114, 103, 47, 114, 101, 112, 111>>
    [] str = "jira:issue_created" ->
         <<106, 105, 114, 97, 58, 105, 115, 115, 117, 101, 95,
           99, 114, 101, 97, 116, 101, 100>>
    [] str = "jira:issue_updated" ->
         <<106, 105, 114, 97, 58, 105, 115, 115, 117, 101, 95,
           117, 112, 100, 97, 116, 101, 100>>
    [] str = "PROJ-" -> <<80, 82, 79, 74, 45>>
    [] str = "user-1" -> <<117, 115, 101, 114, 45, 49>>
    [] str = "undefined" -> <<117, 110, 100, 101, 102, 105, 110, 101, 100>>

\* the decimal digits of a number, as template literals print it
RECURSIVE DigitCodes(_)
DigitCodes(n) ==
  IF n < 10 THEN <<48 + n>> ELSE Append(DigitCodes(n \div 10), 48 + (n % 10))

\* a Jira issue key of the model, "PROJ-<n>", as text
JiraKeyCodes(n) == CharCodes("PROJ-") \o DigitCodes(n)

\* a 32-bit integer is kept as its two 16-bit halves <<high, low>>.
\* hash = ((hash << 5) - hash) + char; hash = hash & hash
HashStep[hash \in (0..65535) \X (0..65535), char \in 0..65535] ==
  LET low == 31 * hash[2] + char
      high == 31 * hash[1] + (low \div 65536)
  IN <<high % 65536, low % 65536>>

\* the loop over data: the hash after the first n code units
RECURSIVE HashCodes(_, _)
HashCodes(data, n) ==
  IF n = 0 THEN <<0, 0>> ELSE HashStep[HashCodes(data, n - 1), data[n]]

\* Math.abs of the signed 32-bit integer, as a non-negative <<high, low>>
MathAbs(hash) ==
  IF hash[1] < 32768 THEN hash
  ELSE IF hash[2] = 0 THEN <<65536 - hash[1], 0>>
  ELSE <<65535 - hash[1], 65536 - hash[2]>>

\* Number.prototype.toString(36): the base-36 digits, most significant first
RECURSIVE ToString36(_)
ToString36(n) ==
  LET mid == (n[1] % 36) * 65536 + n[2]
      quotient == <<n[1] \div 36, mid \div 36>>
  IN IF quotient = <<0, 0>> THEN <<mid % 36>>
     ELSE Append(ToString36(quotient), mid % 36)

\* the simple hash function both generateEventHash functions end with
SimpleHash(data) == ToString36(MathAbs(HashCodes(data, Len(data))))

\* generateEventHash of the GitHub handler
generateEventHash(source, event) ==
  SimpleHash(CharCodes(source) \o CharCodes(":")
     \o CharCodes(event.action) \o CharCodes(":")
     \o (IF event.repository # NONE THEN CharCodes(event.repository.full_name)
                                     ELSE CharCodes("undefined")) \o CharCodes(":")
     \o (IF event.issue # NONE THEN DigitCodes(event.issue.id)
         ELSE IF event.comment # NONE THEN DigitCodes(event.comment.id)
         ELSE CharCodes("undefined")) \o CharCodes(":")
     \o DigitCodes(event.sender.id))

\* generateEventHash of the Jira handler
generateJiraEventHash(source, event) ==
  SimpleHash(CharCodes(source) \o CharCodes(":")
     \o CharCodes(event.webhookEvent) \o CharCodes(":")
     \o (IF event.issueKey # 0 THEN JiraKeyCodes(event.issueKey)
         ELSE IF event.issue # NONE THEN JiraKeyCodes(event.issue.key)
         ELSE CharCodes("undefined")) \o CharCodes(":")
     \o (IF event.user # NONE THEN CharCodes(event.user.accountId)
                               ELSE CharCodes("undefined")))

\* mapWebhookToSyncEvent of the GitHub handler; NULL when the event is not relevant
mapWebhookToSyncEvent(event) ==
  IF event.issue # NONE /\ event.action = "opened" THEN ISSUE_CREATED
  ELSE IF event.issue # NONE /\ event.action \in {"closed", "reopened", "edited"}
    THEN ISSUE_UPDATED
  ELSE IF event.issue # NONE /\ event.action \in {"labeled", "unlabeled"}
    THEN LABEL_CHANGED
  ELSE IF event.issue # NONE /\ event.action \in {"assigned", "unassigned"}
    THEN ASSIGNEE_CHANGED
  ELSE IF event.comment # NONE /\ event.action = "created" THEN COMMENT_CREATED
  ELSE IF event.comment # NONE /\ event.action = "edited" THEN COMMENT_UPDATED
  ELSE NULL

\* JIRA_EVENT_MAPPING[webhookEvent] || null
JIRA_EVENT_MAPPING(webhookEvent) ==
  CASE webhookEvent = "jira:issue_created" -> ISSUE_CREATED
    [] webhookEvent = "jira:issue_updated" -> ISSUE_UPDATED
    [] webhookEvent = "jira:issue_deleted" -> ISSUE_DELETED
    [] webhookEvent = "comment_created" -> COMMENT_CREATED
    [] webhookEvent = "comment_updated" -> COMMENT_UPDATED
    [] webhookEvent \in {"sprint_started", "sprint_closed"} -> STATUS_CHANGED
    [] OTHER -> NULL

\* mapJiraWebhookToSyncEvent, with mapIssueUpdateType
mapJiraWebhookToSyncEvent(event) ==
  IF event.webhookEvent = "jira:issue_updated" /\ event.issue # NONE
    THEN ISSUE_UPDATED
    ELSE JIRA_EVENT_MAPPING(event.webhookEvent)

\* the webhook payloads delivered to POST /webhooks/github
GitHubPayloads ==
  [valid : BOOLEAN, action : {"opened", "edited", "deleted", "created"},
   issue : {NONE} \cup {[id |-> i] : i \in Sources}, comment : {NONE, [id |-> 5]},
   repository : {NONE, [full_name |-> "org/repo"]}, sender : {[id |-> 7]}]

\* the webhook payloads delivered to POST /webhooks/jira
JiraPayloads ==
  [valid : BOOLEAN,
   webhookEvent : {"jira:issue_created", "jira:issue_updated", "user_created",
                   "comment_created"},
   issue : {NONE} \cup {[key |-> k] : k \in Sources}, comment : {NONE, [id |-> 5]},
   issueKey : {0} \cup Sources,
   user : {[accountId |-> "user-1"]}]

\* POST /webhooks/github and POST /webhooks/jira: the HTTP status the route
\* answers with for the handler's result.success
routeStatus(success) == IF ~success THEN 500 ELSE 200

\* a handler invocation as it begins: the payload is parsed, mapped to a
\* sync event type and hashed; an irrelevant or an invalid payload ends it
NewDelivery(source, payload, syncEvent, eventHash) ==
  IF ~payload.valid
    THEN [source |-> source, payload |-> payload, eventType |-> NULL, eventHash |-> <<>>,
          pc |-> "done", success |-> FALSE, duplicate |-> FALSE, syncJobId |-> 0,
          status |-> routeStatus(FALSE)]
  ELSE IF syncEvent = NULL
    THEN [source |-> source, payload |-> payload, eventType |-> NULL, eventHash |-> <<>>,
          pc |-> "done", success |-> TRUE, duplicate |-> FALSE, syncJobId |-> 0,
          status |-> routeStatus(TRUE)]
  ELSE [source |-> source, payload |-> payload, eventType |-> syncEvent,
        eventHash |-> eventHash,
        pc |-> "isDuplicate", success |-> FALSE, duplicate |-> FALSE, syncJobId |-> 0,
        status |-> 0]

\* handleGitHubWebhook up to its first await
handleGitHubWebhook(payload) ==
  /\ deliveries' = Append(deliveries,
        NewDelivery("github", payload, mapWebhookToSyncEvent(payload),
                    IF payload.valid /\ mapWebhookToSyncEvent(payload) # NULL
                      THEN generateEventHash("github", payload) ELSE <<>>))
  /\ UNCHANGED <<dedupVars, syncVars>>

\* handleJiraWebhook up to its first await
handleJiraWebhook(payload) ==
  /\ deliveries' = Append(deliveries,
        NewDelivery("jira", payload, mapJiraWebhookToSyncEvent(payload),
                    IF payload.valid /\ mapJiraWebhookToSyncEvent(payload) # NULL
                      THEN generateJiraEventHash("jira", payload) ELSE <<>>))
  /\ UNCHANGED <<dedupVars, syncVars>>

\* crypto.timingSafeEqual(a, b): it throws a RangeError when the two buffers
\* differ in length, and else answers whether they are equal
timingSafeEqual(a, b) ==
  IF Len(a) # Len(b) THEN [threw |-> TRUE, equal |-> FALSE]
                     ELSE [threw |-> FALSE, equal |-> a = b]

\* 'sha256=' + hmac.update(payload).digest('hex') under the configured
\* secret: a text of one length for every body, that differs between bodies
hmacDigest(payload) == IF payload.action = "opened" THEN <<1, 2>> ELSE <<2, 1>>

\* verifyGitHubSignature(payload, signature, secret)
verifyGitHubSignature(payload, signature) == timingSafeEqual(signature, hmacDigest(payload))

\* the x-hub-signature-256 header of a request: <<>> when the header is
\* missing, else the digest of either body or a text of another length
Signatures == {<<>>, <<1, 2>>, <<2, 1>>, <<3>>}

\* the bodies of the requests sent to the route: issue events that parse
RoutePayloads ==
  {p \in GitHubPayloads :
     /\ p.valid /\ p.action \in {"opened", "edited"}
     /\ p.issue # NONE /\ p.comment = NONE /\ p.repository # NONE}

\* POST /webhooks/github up to the point it answers or calls the handler:
\* 0 when it goes on to handleGitHubWebhook, else the status it answers with.
\* The signature is verified only if (signature); what verifyGitHubSignature
\* throws is caught by the route's catch
githubRouteGate(signature, payload) ==
  IF signature # <<>>
    THEN IF verifyGitHubSignature(payload, signature).threw THEN 500
         ELSE IF ~verifyGitHubSignature(payload, signature).equal THEN 401
         ELSE 0
    ELSE 0

\* POST /webhooks/github with this header and body, up to the handler's
\* first await
postWebhooksGitHub(signature, payload) ==
  /\ deliveries' = Append(deliveries,
        IF githubRouteGate(signature, payload) = 0
          THEN NewDelivery("github", payload, mapWebhookToSyncEvent(payload),
                           IF payload.valid /\ mapWebhookToSyncEvent(payload) # NULL
                             THEN generateEventHash("github", payload) ELSE <<>>)
                 @@ [signature |-> signature]
          ELSE [source |-> "github", payload |-> payload, eventType |-> NULL,
                eventHash |-> <<>>, pc |-> "done", success |-> FALSE,
                duplicate |-> FALSE, syncJobId |-> 0,
                status |-> githubRouteGate(signature, payload),
                signature |-> signature])
  /\ UNCHANGED <<dedupVars, syncVars>>

\* handleIssueEvent / handleCommentEvent of the two handlers: the sourceId
\* of the job they add, 0 when they return undefined without adding one
jobSourceId(source, event) ==
  IF source = "github"
    THEN IF event.issue # NONE
           THEN IF event.repository # NONE THEN event.issue.id ELSE 0
         ELSE IF event.comment # NONE
           THEN 0     \* handleCommentEvent needs the issue as well
         ELSE 0
    ELSE IF event.issue # NONE THEN event.issue.key
         ELSE IF event.comment # NONE /\ event.issueKey # 0 THEN event.comment.id
         ELSE 0

\* handleIssueEvent / handleCommentEvent: the members of the sourceData of
\* the job they add
jobSourceData(source, event) ==
  IF event.issue # NONE THEN IssueSourceData
  ELSE IF source = "github" THEN CommentSourceData
  ELSE JiraCommentSourceData

\* await isDuplicate(eventHash) answers: a duplicate ends the handler with
\* {success: true}; anything else goes on to handleIssueEvent /
\* handleCommentEvent, which add a job or return at once
WebhookIsDuplicate(d) ==
  /\ d \in 1..Len(deliveries)
  /\ deliveries[d].pc = "isDuplicate"
  /\ isDuplicate(deliveries[d].eventHash)
  /\ deliveries' = [deliveries EXCEPT ![d] =
        IF isDuplicateResult(redis, redisUp, deliveries[d].eventHash)
          THEN [@ EXCEPT !.pc = "done", !.success = TRUE, !.duplicate = TRUE,
                         !.status = routeStatus(TRUE)]
        ELSE IF jobSourceId(deliveries[d].source, deliveries[d].payload) = 0
          THEN [@ EXCEPT !.pc = "done", !.success = TRUE, !.status = routeStatus(TRUE)]
        ELSE [@ EXCEPT !.pc = "addSyncJob"]]
  /\ UNCHANGED syncVars

\* await addSyncJob(direction, eventType, sourceId, sourceData) answers, and
\* the handler returns {success: true, syncJobId}
WebhookAddSyncJob(d) ==
  /\ d \in 1..Len(deliveries)
  /\ deliveries[d].pc = "addSyncJob"
  /\ LET delivery == deliveries[d]
     IN addSyncJob(IF delivery.source = "github" THEN GITHUB_TO_JIRA ELSE JIRA_TO_GITHUB,
                   delivery.eventType,
                   jobSourceId(delivery.source, delivery.payload),
                   jobSourceData(delivery.source, delivery.payload))
  /\ deliveries' = [deliveries EXCEPT ![d] =
        [@ EXCEPT !.pc = "done", !.success = TRUE, !.syncJobId = Len(jobs) + 1,
                  !.status = routeStatus(TRUE)]]
  /\ UNCHANGED dedupVars

\* the event hashes of the relevant payloads: the dedup keys of the ingress
EventHashes ==
  {generateEventHash("github", p) :
      p \in {q \in GitHubPayloads : mapWebhookToSyncEvent(q) # NULL}}
  \cup {generateJiraEventHash("jira", p) :
      p \in {q \in JiraPayloads : mapJiraWebhookToSyncEvent(q) # NULL}}

DedupInit ==
  /\ redis = [h \in Hashes |-> 0]
  /\ redisUp = TRUE
  /\ lastDedup = NoCall
  /\ grants = [h \in Hashes |-> 0]

SyncInit ==
  /\ jobs = <<>>
  /\ jiraIssues = <<>>
  /\ githubIssues = <<>>
  /\ storedMappings = {}

IngressIdle == deliveries = <<>>
ConflictIdle == conflict = NoConflictCall

ConfigInit == config = loadConfig
LimiterIdle == limiter = 0

Init == DedupInit /\ SyncInit /\ IngressIdle /\ ConflictIdle /\ ConfigInit /\ LimiterIdle

DedupNext ==
  \/ \E h \in Hashes, ttl \in Ttls : processDeduplication(h, ttl) /\ UNCHANGED notDedupVars
  \/ \E h \in Hashes : isDuplicate(h) /\ UNCHANGED notDedupVars
  \/ \E h \in Hashes, ttl \in Ttls : markAsProcessed(h, ttl) /\ UNCHANGED notDedupVars
  \/ \E h \in Hashes : removeDedupKey(h) /\ UNCHANGED notDedupVars
  \/ clearAllDedupKeys /\ UNCHANGED notDedupVars
  \/ Tick /\ UNCHANGED notDedupVars
  \/ RedisFails /\ UNCHANGED notDedupVars
  \/ RedisRecovers /\ UNCHANGED notDedupVars

\* the deduplication service on its own
SpecDedup == Init /\ [][DedupNext]_vars

WorkerNext ==
  \/ \E j \in 1..MaxJobs : WorkerFetch(j) /\ UNCHANGED notSyncVars
  \/ \E j \in 1..MaxJobs : EngineLookup(j) /\ UNCHANGED notSyncVars
  \/ \E j \in 1..MaxJobs, ok \in BOOLEAN : EngineCall(j, ok) /\ UNCHANGED notSyncVars
  \/ \E j \in 1..MaxJobs : EngineStoreMapping(j) /\ UNCHANGED notSyncVars
  \/ \E j \in 1..MaxJobs : WorkerCompletes(j) /\ UNCHANGED notSyncVars
  \/ \E j \in 1..MaxJobs : WorkerFails(j) /\ UNCHANGED notSyncVars
  \/ \E j \in 1..MaxJobs : Promote(j) /\ UNCHANGED notSyncVars

SyncNext ==
  \/ \E d \in SyncDirection, e \in EnqueuedEventTypes, s \in Sources :
        Len(jobs) < MaxJobs /\ addSyncJob(d, e, s, IssueSourceData) /\ UNCHANGED notSyncVars
  \/ \E d \in SyncDirection, e \in EnqueuedEventTypes, s \in Sources :
        Len(jobs) < MaxJobs /\ createQueueAdd(d, e, s, IssueSourceData) /\ UNCHANGED notSyncVars
  \/ WorkerNext
  \/ \E j \in 1..MaxJobs : WorkerStalls(j) /\ UNCHANGED notSyncVars

\* the queues, the worker and the sync engine
SpecSync == Init /\ [][SyncNext]_vars

RetryNext ==
  \/ \E d \in SyncDirection, e \in EnqueuedEventTypes, s \in Sources :
        Len(jobs) < MaxRetryJobs /\ createQueueAdd(d, e, s, IssueSourceData) /\ UNCHANGED notSyncVars
  \/ WorkerNext
  \/ \E j \in 1..MaxJobs : WorkerStalls(j) /\ UNCHANGED notSyncVars

\* the worker and its own queue: attempts, backoff and terminal states
SpecRetry == Init /\ [][RetryNext]_vars

ConflictInit ==
  /\ DedupInit /\ SyncInit /\ IngressIdle /\ ConfigInit /\ LimiterIdle
  /\ conflict \in {[stage |-> "input", githubIssue |-> g, jiraIssue |-> j,
                     jiraIssueGiven |-> j,
                     conflictData |-> NONE, strategy |-> NULL, resolution |-> NONE] :
                       g \in GitHubIssueInputs, j \in JiraIssueInputs}

ConflictNext ==
  \/ DetectConflicts /\ UNCHANGED <<dedupVars, syncVars, deliveries, config, limiter>>
  \/ \E strategy \in ConflictResolutionStrategy :
        ResolveConflict(strategy) /\ UNCHANGED <<dedupVars, syncVars, deliveries, config, limiter>>

\* the conflict engine on its own, on every pair of input snapshots
SpecConflict == ConflictInit /\ [][ConflictNext]_vars

\* label names, and the label lists of an issue
LabelNames == 1..MaxLabelName
RoundTripLists == {<<a>> : a \in LabelNames} \cup {<<a, b>> : a, b \in LabelNames}

\* the injective labelMapping tables: no key twice, as in any object, and no
\* value twice
LabelTables ==
  {<<e>> : e \in LabelNames \X LabelNames}
  \cup {<<e, f>> : e, f \in LabelNames \X LabelNames}

LabelsInit ==
  /\ DedupInit /\ SyncInit /\ IngressIdle /\ ConfigInit /\ LimiterIdle
  /\ conflict \in {[stage |-> "github", labels |-> l, given |-> l, table |-> t] :
                       l \in RoundTripLists,
                       t \in {u \in LabelTables :
                                 \A i, k \in 1..Len(u) :
                                    i # k => (u[i][1] # u[k][1] /\ u[i][2] # u[k][2])}}

\* resolveConflict under GITHUB_WINS: the labels of the GitHub side are put
\* into Jira's names by transformGitHubToJiraFormat
LabelsToJira ==
  /\ conflict.stage = "github"
  /\ conflict' = [conflict EXCEPT
        !.stage = "jira",
        !.labels = transformGitHubToJiraFormat(
                      [title |-> "", body |-> "", state |-> "open", labels |-> conflict.labels],
                      [labelMapping |-> <<conflict.table>>, statusMapping |-> <<>>]).fields.labels]

\* resolveConflict under JIRA_WINS with the same table: the labels of the
\* Jira side are put into GitHub's names by transformJiraToGitHubFormat
LabelsToGitHub ==
  /\ conflict.stage = "jira"
  /\ conflict' = [conflict EXCEPT
        !.stage = "back",
        !.labels = transformJiraToGitHubFormat(
                      [summary |-> "", description |-> "", status |-> "To Do",
                       labels |-> conflict.labels, assignee |-> NULL],
                      [labelMapping |-> <<conflict.table>>, statusMapping |-> <<>>]).labels]

LabelsNext ==
  \/ LabelsToJira /\ UNCHANGED <<dedupVars, syncVars, deliveries, config, limiter>>
  \/ LabelsToGitHub /\ UNCHANGED <<dedupVars, syncVars, deliveries, config, limiter>>

\* the two label translations, one after the other, on every label list and
\* every injective table
SpecLabels == LabelsInit /\ [][LabelsNext]_vars

IngressInit ==
  /\ redis = [h \in EventHashes |-> 0]
  /\ redisUp = TRUE
  /\ lastDedup = NoCall
  /\ grants = [h \in EventHashes |-> 0]
  /\ SyncInit /\ IngressIdle /\ ConflictIdle /\ ConfigInit /\ LimiterIdle

IngressNext ==
  \/ \E payload \in GitHubPayloads :
        Len(deliveries) < MaxDeliveries /\ handleGitHubWebhook(payload) /\ UNCHANGED <<conflict, config, limiter>>
  \/ \E payload \in JiraPayloads :
        Len(deliveries) < MaxDeliveries /\ handleJiraWebhook(payload) /\ UNCHANGED <<conflict, config, limiter>>
  \/ \E d \in 1..MaxDeliveries : WebhookIsDuplicate(d) /\ UNCHANGED <<conflict, config, limiter>>
  \/ \E d \in 1..MaxDeliveries : WebhookAddSyncJob(d) /\ UNCHANGED <<conflict, config, limiter>>
  \/ RedisFails /\ UNCHANGED notDedupVars
  \/ RedisRecovers /\ UNCHANGED notDedupVars

\* the webhook handlers in front of the dedup store and the queues
SpecIngress == IngressInit /\ [][IngressNext]_vars

RouteNext ==
  \/ \E signature \in Signatures, payload \in RoutePayloads :
        /\ Len(deliveries) < MaxDeliveries
        /\ postWebhooksGitHub(signature, payload)
        /\ UNCHANGED <<conflict, config, limiter>>
  \/ \E d \in 1..MaxDeliveries : WebhookIsDuplicate(d) /\ UNCHANGED <<conflict, config, limiter>>
  \/ \E d \in 1..MaxDeliveries : WebhookAddSyncJob(d) /\ UNCHANGED <<conflict, config, limiter>>

\* the route POST /webhooks/github in front of the GitHub handler
SpecRoute == IngressInit /\ [][RouteNext]_vars

\* the queues, the worker and the sync engine, the engine holding a config
\* whose sync.conflictResolution is MANUAL (a value AppConfigSchema admits)
ManualInit ==
  /\ DedupInit /\ SyncInit /\ IngressIdle /\ ConflictIdle /\ LimiterIdle
  /\ config = [loadConfig EXCEPT !.sync.conflictResolution = MANUAL]

SpecManualSync == ManualInit /\ [][SyncNext]_vars

\* the same with the worker scheduled fairly: a step the worker can take is
\* eventually taken
FairSpecSync == SpecSync /\ WF_vars(WorkerNext)

\* the sourceData a job of an event type can carry: a comment job holds what
\* handleIssueEvent or a handleCommentEvent built, any other job the issue
SourceDataFor(direction, eventType) ==
  IF eventType \in {COMMENT_CREATED, COMMENT_UPDATED}
    THEN IF direction = JIRA_TO_GITHUB
           THEN {IssueSourceData, CommentSourceData, JiraCommentSourceData}
           ELSE {IssueSourceData, CommentSourceData}
    ELSE {IssueSourceData}

FacetNext ==
  \/ \E d \in SyncDirection, e \in FacetEventTypes, s \in Sources :
        \E sd \in SourceDataFor(d, e) :
          Len(jobs) < MaxJobs /\ addSyncJob(d, e, s, sd) /\ UNCHANGED notSyncVars
  \/ \E d \in SyncDirection, e \in FacetEventTypes, s \in Sources :
        \E sd \in SourceDataFor(d, e) :
          Len(jobs) < MaxJobs /\ createQueueAdd(d, e, s, sd) /\ UNCHANGED notSyncVars
  \/ WorkerNext
  \/ \E j \in 1..MaxJobs : WorkerStalls(j) /\ UNCHANGED notSyncVars

\* the queues, the worker and the sync engine on comment and single-facet jobs
SpecFacet == Init /\ [][FacetNext]_vars

\* the same with the worker scheduled fairly
FairSpecFacet == SpecFacet /\ WF_vars(WorkerNext)

HangNext ==
  \/ RetryNext
  \/ \E j \in 1..MaxJobs : CallNeverResponds(j) /\ UNCHANGED notSyncVars

\* the worker and its own queue, with trackers that may leave a call
\* unanswered; the worker is scheduled fairly
FairSpecHang == Init /\ [][HangNext]_vars /\ WF_vars(WorkerNext)

\* the worker started with QUEUE_CONCURRENCY set to LowConcurrency
LimitsInit ==
  /\ DedupInit /\ SyncInit /\ IngressIdle /\ ConflictIdle /\ LimiterIdle
  /\ config = [loadConfig EXCEPT !.queue.concurrency = LowConcurrency]

LimitsNext ==
  \/ /\ Len(jobs) < MaxLimitJobs
     /\ createQueueAdd(GITHUB_TO_JIRA, STATUS_CHANGED, 1, IssueSourceData)
     /\ UNCHANGED notSyncVars
  \/ \E j \in 1..MaxLimitJobs :
        RateLimitedFetch(j) /\ UNCHANGED <<dedupVars, deliveries, conflict, config>>
  \/ \E j \in 1..MaxLimitJobs : WorkerFails(j) /\ UNCHANGED notSyncVars
  \/ \E j \in 1..MaxLimitJobs : Promote(j) /\ UNCHANGED notSyncVars
  \/ WindowExpires

\* the worker under its two limits, on jobs that fail and are retried
SpecLimits == LimitsInit /\ [][LimitsNext]_vars

QueueNext ==
  \/ \E d \in SyncDirection, e \in EnqueuedEventTypes \cup FacetEventTypes, s \in Sources :
        \E sd \in SourceDataFor(d, e) :
          Len(jobs) < MaxJobs /\ addSyncJob(d, e, s, sd) /\ UNCHANGED notSyncVars
  \/ \E queueName \in {QUEUE_NAMES.GITHUB_SYNC, QUEUE_NAMES.JIRA_SYNC,
                        QUEUE_NAMES.SYNC_WORKER} :
        drainQueue(queueName) /\ UNCHANGED notSyncVars

\* the producer side of the two direction queues, and their drain
SpecQueues == Init /\ [][QueueNext]_vars

\* ------------------------------------------------------------------------
\* C1: with the store reachable, a processDeduplication call on a hash is
\* answered {isDuplicate:false, shouldProcess:true} exactly when the key was
\* not live (so the first call of a key's life succeeds, every later call
\* before expiry is a duplicate, and the call after expiry succeeds again);
\* the successful call leaves the key live, and a key's life sees at most one
\* such answer.
\* ------------------------------------------------------------------------
C1_ClaimOncePerTtl ==
  /\ (lastDedup.op = "processDeduplication" /\ lastDedup.up) =>
        /\ lastDedup.shouldProcess = ~lastDedup.live
        /\ lastDedup.isDuplicate = lastDedup.live
        /\ redis[lastDedup.hash] > 0
  /\ \A h \in Hashes : grants[h] <= 1

\* a second call on a live key was rejected after the first was granted
C1_Witness ==
  /\ lastDedup.op = "processDeduplication" /\ lastDedup.up
  /\ lastDedup.live /\ lastDedup.isDuplicate /\ ~lastDedup.shouldProcess
  /\ grants[lastDedup.hash] = 1

\* ------------------------------------------------------------------------
\* C3: when the store call fails, isDuplicate returns false and
\* processDeduplication returns {isDuplicate:false, shouldProcess:true};
\* neither call throws.
\* ------------------------------------------------------------------------
C3_FailOpen ==
  /\ lastDedup.threw = FALSE
  /\ (lastDedup.op = "isDuplicate" /\ ~lastDedup.up) => ~lastDedup.isDuplicate
  /\ (lastDedup.op = "processDeduplication" /\ ~lastDedup.up) =>
        (~lastDedup.isDuplicate /\ lastDedup.shouldProcess)

\* the store failed while the key was live, and the claim was still granted
C3_Witness ==
  /\ lastDedup.op = "processDeduplication" /\ ~lastDedup.up /\ lastDedup.live
  /\ lastDedup.shouldProcess

C5_EventuallyDequeued ==
  \A j \in 1..MaxJobs :
    (j \in JobIds /\ jobs[j].via = "addSyncJob")
      ~> (j \in JobIds /\ jobs[j].state # "waiting")

\* ------------------------------------------------------------------------
\* C6: processing an issue-created job for the same source id twice creates
\* exactly one target entity.
\* ------------------------------------------------------------------------
TargetsCreatedFor(direction, sourceId) ==
  LET created == IF direction = GITHUB_TO_JIRA THEN jiraIssues ELSE githubIssues
  IN Cardinality({i \in 1..Len(created) : created[i].from = sourceId})

C6_CreatedOnce ==
  \A j1, j2 \in JobIds :
    (/\ j1 # j2
     /\ jobs[j1].eventType = ISSUE_CREATED /\ jobs[j2].eventType = ISSUE_CREATED
     /\ jobs[j1].direction = jobs[j2].direction
     /\ jobs[j1].sourceId = jobs[j2].sourceId
     /\ jobs[j1].state = "completed" /\ jobs[j2].state = "completed")
    => TargetsCreatedFor(jobs[j1].direction, jobs[j1].sourceId) = 1

\* ------------------------------------------------------------------------
\* C7: under any interleaving of jobs the recorded correlations stay 1:1:
\* a GitHub issue is linked to at most one Jira issue and a Jira issue to at
\* most one GitHub issue.
\* ------------------------------------------------------------------------
C7_OneToOne ==
  \A m1, m2 \in storedMappings : (m1[1] = m2[1]) <=> (m1[2] = m2[2])

\* ------------------------------------------------------------------------
\* C8: re-running a job after its previous attempt failed or stalled
\* part-way never creates a second target entity.
\* ------------------------------------------------------------------------
C8_RerunCreatesNothing ==
  \A j \in JobIds : jobs[j].creates <= 1

\* ------------------------------------------------------------------------
\* C9: an issue-updated job for a source issue that is already synced (a
\* correlation was stored for it before the job ran) updates the target
\* and creates nothing, and the fields it sends to the target are the
\* resolved field set: the fields of the resolution's winning side when the
\* two sides conflicted, the source's fields when they did not.
\* ------------------------------------------------------------------------
ResolvedFieldSet(job) ==
  IF job.resolution = NONE \/ job.resolution.winningData = NONE
    THEN IF job.direction = GITHUB_TO_JIRA
           THEN githubUpdateFields(GitHubSourceIssue(job.sourceId))
           ELSE jiraUpdateFields(JiraSourceIssue(job.sourceId))
    ELSE IF job.resolution.resolution = "github_wins"
           THEN [summary |-> job.resolution.winningData.fields.summary,
                 description |-> job.resolution.winningData.fields.description,
                 labels |-> job.resolution.winningData.fields.labels]
           ELSE [title |-> job.resolution.winningData.title,
                 body |-> job.resolution.winningData.body,
                 labels |-> job.resolution.winningData.labels,
                 state |-> job.resolution.winningData.state]

C9_UpdateSendsResolved ==
  \A j \in JobIds :
    (/\ jobs[j].eventType = ISSUE_UPDATED
     /\ jobs[j].state = "completed"
     /\ jobs[j].mappedAtStart)
    => /\ jobs[j].creates = 0
       /\ jobs[j].updates >= 1
       /\ jobs[j].sent = ResolvedFieldSet(jobs[j])

\* ------------------------------------------------------------------------
\* C10: under LAST_WRITE_WINS, when the GitHub snapshot's updatedAt instant
\* is strictly later the result is github_wins with winningData built from
\* the GitHub snapshot (its fields.summary is the GitHub title); when the
\* Jira snapshot's instant is strictly later the result is jira_wins with
\* winningData built from the Jira snapshot; resolved is true in both cases.
\* ------------------------------------------------------------------------
InstantOf(ts) == ts.wall - ts.offset

C10_LastWriteWins ==
  (conflict.stage = "resolved" /\ conflict.strategy = LAST_WRITE_WINS) =>
    LET githubInstant == InstantOf(conflict.githubIssue.updated_at)
        jiraInstant == InstantOf(conflict.jiraIssue.fields.updated)
        r == conflict.resolution
    IN /\ githubInstant > jiraInstant =>
            /\ r.resolved = TRUE
            /\ r.resolution = "github_wins"
            /\ r.winningData.fields.summary = conflict.githubIssue.title
            /\ r.winningData.fields.description = OrEmpty(conflict.githubIssue.body)
            /\ r.winningData.fields.labels = conflict.githubIssue.labels
       /\ jiraInstant > githubInstant =>
            /\ r.resolved = TRUE
            /\ r.resolution = "jira_wins"
            /\ r.winningData.title = conflict.jiraIssue.fields.summary
            /\ r.winningData.body = OrEmpty(conflict.jiraIssue.fields.description)
            /\ r.winningData.labels = conflict.jiraIssue.fields.labels

\* the titles differ, the GitHub side is the later one although its
\* wall-clock reading is not, and GitHub won with its title as the summary
C10_Witness ==
  /\ conflict.stage = "resolved" /\ conflict.strategy = LAST_WRITE_WINS
  /\ conflict.githubIssue.title = "GitHub Title"
  /\ conflict.jiraIssue.fields.summary = "Jira Title"
  /\ conflict.githubIssue.updated_at.wall = conflict.jiraIssue.fields.updated.wall
  /\ InstantOf(conflict.githubIssue.updated_at) > InstantOf(conflict.jiraIssue.fields.updated)
  /\ conflict.resolution.resolution = "github_wins"
  /\ conflict.resolution.winningData.fields.summary = "GitHub Title"

\* ------------------------------------------------------------------------
\* C2: when the same validated webhook event (the same dedup hash) is
\* delivered more than once within the dedup TTL, one after the other or
\* concurrently, at most one of the deliveries enqueues a sync job.
\* ------------------------------------------------------------------------
C2_OneJobPerEvent ==
  \A d1, d2 \in 1..Len(deliveries) :
    (/\ d1 # d2
     /\ deliveries[d1].eventHash # <<>>
     /\ deliveries[d1].eventHash = deliveries[d2].eventHash)
    => ~(deliveries[d1].syncJobId # 0 /\ deliveries[d2].syncJobId # 0)

\* ------------------------------------------------------------------------
\* C11: under LAST_WRITE_WINS, when the two updatedAt timestamps denote the
\* same instant, the result is github_wins.
\* ------------------------------------------------------------------------
C11_TieGitHubWins ==
  (/\ conflict.stage = "resolved" /\ conflict.strategy = LAST_WRITE_WINS
   /\ InstantOf(conflict.githubIssue.updated_at)
        = InstantOf(conflict.jiraIssue.fields.updated))
  => conflict.resolution.resolution = "github_wins"

\* ------------------------------------------------------------------------
\* C12: under GITHUB_WINS (JIRA_WINS) every conflict report, whatever its
\* timestamps, resolves with resolved = true and resolution github_wins
\* (jira_wins), and winningData is the winning snapshot in the other
\* system's vocabulary: title as summary, body as description, the labels,
\* and the status through the default table (open to 'To Do', closed to
\* 'Done', and 'To Do' to open, 'Done' to closed).
\* ------------------------------------------------------------------------
C12_SideWins ==
  LET r == conflict.resolution
      g == conflict.githubIssue
      j == conflict.jiraIssue
  IN /\ (conflict.stage = "resolved" /\ conflict.strategy = GITHUB_WINS) =>
          /\ r.resolved = TRUE
          /\ r.resolution = "github_wins"
          /\ r.winningData.fields.summary = g.title
          /\ r.winningData.fields.description = OrEmpty(g.body)
          /\ r.winningData.fields.labels = g.labels
          /\ g.state = "open" => r.winningData.transitions[1].transition.name = "To Do"
          /\ g.state = "closed" => r.winningData.transitions[1].transition.name = "Done"
     /\ (conflict.stage = "resolved" /\ conflict.strategy = JIRA_WINS) =>
          /\ r.resolved = TRUE
          /\ r.resolution = "jira_wins"
          /\ r.winningData.title = j.fields.summary
          /\ r.winningData.body = OrEmpty(j.fields.description)
          /\ r.winningData.labels = j.fields.labels
          /\ j.fields.status.name = "To Do" => r.winningData.state = "open"
          /\ j.fields.status.name = "Done" => r.winningData.state = "closed"

\* JIRA_WINS on a Done issue whose GitHub side is open and was updated
\* later: the Jira side won and the state handed to GitHub is closed
C12_Witness ==
  /\ conflict.stage = "resolved" /\ conflict.strategy = JIRA_WINS
  /\ conflict.githubIssue.state = "open"
  /\ conflict.jiraIssue.fields.status.name = "Done"
  /\ InstantOf(conflict.githubIssue.updated_at)
       > InstantOf(conflict.jiraIssue.fields.updated)
  /\ conflict.resolution.resolution = "jira_wins"
  /\ conflict.resolution.winningData.state = "closed"

\* ------------------------------------------------------------------------
\* C13: under MANUAL no conflict report is resolved automatically: the
\* result has resolved = false, resolution 'manual', requiresManualReview =
\* true and no winningData.
\* ------------------------------------------------------------------------
C13_ManualNeverResolves ==
  (conflict.stage = "resolved" /\ conflict.strategy = MANUAL) =>
    /\ conflict.resolution.resolved = FALSE
    /\ conflict.resolution.resolution = "manual"
    /\ conflict.resolution.requiresManualReview = TRUE
    /\ conflict.resolution.winningData = NONE

\* a report on differing titles with the GitHub side newer went to MANUAL
C13_Witness ==
  /\ conflict.stage = "resolved" /\ conflict.strategy = MANUAL
  /\ conflict.githubIssue.title # conflict.jiraIssue.fields.summary
  /\ InstantOf(conflict.githubIssue.updated_at)
       > InstantOf(conflict.jiraIssue.fields.updated)
  /\ "title" \in {conflict.conflictData.conflictingFields[i] :
                    i \in 1..Len(conflict.conflictData.conflictingFields)}
  /\ conflict.resolution.requiresManualReview

\* ------------------------------------------------------------------------
\* The facets of two snapshots that differ, as the specification compares
\* them: title with summary, body with description (an absent one read as
\* empty), the open state with the state the Jira status stands for in the
\* status table, the labels as sets, the assignees as sets of names without
\* regard to case.
\* ------------------------------------------------------------------------
SetOf(seq) == {seq[i] : i \in 1..Len(seq)}

OpenStateOf(jiraIssue) ==
  IF MapHasValue(getDefaultStatusMapping, jiraIssue.fields.status.name)
    THEN MapFindKey(getDefaultStatusMapping, jiraIssue.fields.status.name)
    ELSE "open"

DifferingFacets(githubIssue, jiraIssue) ==
  (IF githubIssue.title # jiraIssue.fields.summary THEN {"title"} ELSE {})
  \cup (IF OrEmpty(githubIssue.body) # OrEmpty(jiraIssue.fields.description)
          THEN {"description"} ELSE {})
  \cup (IF githubIssue.state # OpenStateOf(jiraIssue) THEN {"status"} ELSE {})
  \cup (IF SetOf(githubIssue.labels) # SetOf(jiraIssue.fields.labels)
          THEN {"labels"} ELSE {})
  \cup (IF {ToLowerCase(a) : a \in SetOf(githubIssue.assignees)}
            # (IF jiraIssue.fields.assignee = NULL
                 THEN {} ELSE {ToLowerCase(jiraIssue.fields.assignee)})
          THEN {"assignees"} ELSE {})

\* ------------------------------------------------------------------------
\* C15: detectConflicts returns a report exactly when at least one of the
\* five facets differs, its conflictingFields names exactly the differing
\* facets, and it returns null exactly when none differs.
\* ------------------------------------------------------------------------
C15_ReportIffDiffer ==
  (conflict.stage = "detected") =>
    LET differing == DifferingFacets(conflict.githubIssue, conflict.jiraIssueGiven)
    IN /\ (conflict.conflictData = NONE) <=> (differing = {})
       /\ conflict.conflictData # NONE =>
            SetOf(conflict.conflictData.conflictingFields) = differing

\* ------------------------------------------------------------------------
\* C16: an open GitHub issue against a Jira issue in 'To Do', or a closed one
\* against a Jira issue in 'Done', is not reported as a 'status' conflict;
\* open against 'Done', or closed against 'To Do', is.
\* ------------------------------------------------------------------------
C16_StatusThroughVocabulary ==
  (conflict.stage = "detected"
     /\ conflict.jiraIssueGiven.fields.status.name \in {"To Do", "Done"}) =>
    LET agree == MapGet(getDefaultStatusMapping, conflict.githubIssue.state)
                   = conflict.jiraIssueGiven.fields.status.name
        reported == /\ conflict.conflictData # NONE
                    /\ "status" \in SetOf(conflict.conflictData.conflictingFields)
    IN reported <=> ~agree

\* ------------------------------------------------------------------------
\* C17: detectConflicts reports 'labels' exactly when the set of GitHub
\* label names differs from the set of Jira labels, whatever the order of
\* either list and however often a label is listed.
\* ------------------------------------------------------------------------
C17_LabelsAsSets ==
  (conflict.stage = "detected") =>
    LET reported == /\ conflict.conflictData # NONE
                    /\ "labels" \in SetOf(conflict.conflictData.conflictingFields)
    IN reported <=> (SetOf(conflict.githubIssue.labels)
                       # SetOf(conflict.jiraIssueGiven.fields.labels))

\* ------------------------------------------------------------------------
\* C19: detectConflicts leaves both snapshots as they were given, the order
\* of the Jira issue's label list included; resolveConflict leaves the
\* report as it was given, which is the report a second detectConflicts
\* call on the same snapshots returns.
\* ------------------------------------------------------------------------
C19_InputsUnchanged ==
  /\ conflict.stage \in {"detected", "resolved"} =>
        conflict.jiraIssue = conflict.jiraIssueGiven
  /\ conflict.stage = "resolved" =>
        conflict.conflictData = detectConflicts(conflict.githubIssue, conflict.jiraIssue)

\* ------------------------------------------------------------------------
\* C14: when an issue-updated job, in either direction, meets a conflict
\* whose resolution requires manual review, the target is still updated with
\* the source's values and a conflict record is stored for review.
\* ------------------------------------------------------------------------
\* the target the source entity of a job was correlated with
CorrelatedTarget(job) ==
  IF job.direction = GITHUB_TO_JIRA
    THEN (CHOOSE m \in storedMappings : m[1] = job.sourceId)[2]
    ELSE (CHOOSE m \in storedMappings : m[2] = job.sourceId)[1]

\* the source of the job and its correlated target conflict, and the
\* resolution under the engine's config asks for manual review
ManualReviewDue(job) ==
  LET r == IF job.direction = GITHUB_TO_JIRA
             THEN updateResolution(GitHubSourceIssue(job.sourceId),
                                   jiraGetIssue(CorrelatedTarget(job)))
             ELSE updateResolution(githubGetIssue(CorrelatedTarget(job)),
                                   JiraSourceIssue(job.sourceId))
  IN r # NONE /\ r.requiresManualReview

C20_DeleteArchives ==
  \A j \in JobIds :
    (jobs[j].eventType = ISSUE_DELETED /\ jobs[j].state = "completed") =>
      /\ jobs[j].creates = 0
      /\ jobs[j].mappedAtStart =>
           /\ TargetsCreatedFor(jobs[j].direction, jobs[j].sourceId) >= 1
           /\ jobs[j].updates = 1
           /\ jobs[j].sent = IF jobs[j].direction = GITHUB_TO_JIRA
                               THEN githubDeletedFields ELSE jiraDeletedFields
      /\ ~jobs[j].mappedAtStart => jobs[j].updates = 0
\* ------------------------------------------------------------------------
\* C21: a comment-created job whose parent issue has no correlation is
\* attempted, fails on every attempt, and ends in status failed (the worker
\* being scheduled fairly); it does not stay in the queue unprocessed.
\* ------------------------------------------------------------------------
C21_CommentJobEndsFailed ==
  \A j \in 1..MaxJobs :
    (j \in JobIds /\ jobs[j].eventType = COMMENT_CREATED
       /\ ~HasStoredMapping(jobs[j].direction, jobs[j].sourceId))
      ~> (j \in JobIds /\ jobs[j].state = "failed")

\* ------------------------------------------------------------------------
\* C22: a label-changed, assignee-changed or status-changed job for an
\* entity whose correlation has been stored returns success from the engine,
\* having issued one target update.
\* ------------------------------------------------------------------------
C22_FacetJobUpdatesFacet ==
  \A j \in JobIds :
    (/\ jobs[j].eventType \in {LABEL_CHANGED, ASSIGNEE_CHANGED, STATUS_CHANGED}
     /\ jobs[j].mappedAtStart
     /\ jobs[j].state = "active" /\ jobs[j].pc = "return")
      => (jobs[j].result = "success" /\ jobs[j].updates = 1 /\ jobs[j].sent # NONE)

C24_SuccessHasSideEffect ==
  \A j \in JobIds :
    (jobs[j].state = "active" /\ jobs[j].pc = "return" /\ jobs[j].result = "success")
      => (jobs[j].creates + jobs[j].updates >= 1 /\ jobs[j].stores <= 1)

C27_DrainLosesNoJob ==
  \A j \in JobIds : jobs[j].state # "removed"

C28_ClaimedJobFinishes ==
  \A j \in 1..MaxJobs :
    (j \in JobIds /\ jobs[j].state = "active")
      ~> (j \in JobIds /\ jobs[j].state \in {"completed", "failed"})

\* ------------------------------------------------------------------------
\* C29: a handler that has answered success for a valid, relevant,
\* non-duplicate event returns the id of a job that is in the queue.
\* ------------------------------------------------------------------------
C29_SuccessMeansEnqueued ==
  \A d \in 1..Len(deliveries) :
    (/\ deliveries[d].pc = "done" /\ deliveries[d].success
     /\ deliveries[d].payload.valid /\ deliveries[d].eventType # NULL
     /\ ~deliveries[d].duplicate)
      => (/\ deliveries[d].syncJobId \in JobIds
          /\ jobs[deliveries[d].syncJobId].state = "waiting")

\* ------------------------------------------------------------------------
\* C30: a request whose payload fails the schema is answered with HTTP 400,
\* adds no job and writes no dedup key.
\* ------------------------------------------------------------------------
C30_InvalidPayloadRejected ==
  \A d \in 1..Len(deliveries) :
    (deliveries[d].pc = "done" /\ ~deliveries[d].payload.valid)
      => (/\ deliveries[d].status = 400
          /\ deliveries[d].syncJobId = 0
          /\ (\A e \in 1..Len(deliveries) : ~deliveries[e].payload.valid)
                => (jobs = <<>> /\ \A h \in DOMAIN redis : redis[h] = 0))

\* ------------------------------------------------------------------------
\* C31: with the store reachable before and after the call, isDuplicate(H)
\* answers whether H's key is
\* live, and it leaves the store as it was; a key becomes live only by
\* markAsProcessed or a granted processDeduplication, both of which leave it
\* live, and it stops being live only by its TTL running out, removeDedupKey
\* or clearAllDedupKeys, the last two of which leave it absent.
\* ------------------------------------------------------------------------
C31_IsDuplicateReadsLiveKeys ==
  [][ /\ (lastDedup'.op = "isDuplicate" /\ redisUp /\ redisUp') =>
            /\ lastDedup'.isDuplicate = (redis[lastDedup'.hash] > 0)
            /\ redis' = redis
      /\ (lastDedup'.op = "markAsProcessed" /\ redisUp /\ redisUp') => redis'[lastDedup'.hash] > 0
      /\ (lastDedup'.op = "processDeduplication" /\ redisUp /\ redisUp') => redis'[lastDedup'.hash] > 0
      /\ (lastDedup'.op = "removeDedupKey" /\ redisUp /\ redisUp') => redis'[lastDedup'.hash] = 0
      /\ (lastDedup'.op = "clearAllDedupKeys" /\ redisUp /\ redisUp') => \A h \in Hashes : redis'[h] = 0
      /\ \A h \in Hashes :
            /\ (redis[h] = 0 /\ redis'[h] > 0) =>
                  /\ lastDedup'.op \in {"markAsProcessed", "processDeduplication"}
                  /\ lastDedup'.hash = h
            /\ (redis[h] > 0 /\ redis'[h] = 0) =>
                  lastDedup'.op \in {"tick", "removeDedupKey", "clearAllDedupKeys"}
    ]_vars

\* isDuplicate has answered true for a key that is live
C31_Witness ==
  /\ lastDedup.op = "isDuplicate" /\ lastDedup.up
  /\ lastDedup.live /\ lastDedup.isDuplicate
  /\ redis[lastDedup.hash] > 0

\* ------------------------------------------------------------------------
\* C32: an attempt is reported completed exactly when processSync returned
\* success=true; when it returned success=false the processor throws an
\* error with the result's error message, and the queue delays the job for a
\* retry while attempts are left and fails it otherwise.
\* ------------------------------------------------------------------------
C32_CompletedIffSuccess ==
  [][\A j \in JobIds : j \in DOMAIN jobs' =>
        /\ (jobs[j].state # "completed" /\ jobs'[j].state = "completed")
              => (jobs[j].pc = "return" /\ jobs[j].result = "success")
        /\ jobs'[j].attemptsMade # jobs[j].attemptsMade =>
              /\ jobs[j].state = "active" /\ jobs[j].pc = "return"
              /\ jobs'[j].attemptsMade = jobs[j].attemptsMade + 1
              /\ jobs[j].result = "success" =>
                    (jobs'[j].state = "completed" /\ jobs'[j].thrown = "")
              /\ jobs[j].result = "failure" =>
                    /\ jobs'[j].thrown = jobs[j].error /\ jobs'[j].thrown # ""
                    /\ jobs'[j].state =
                          IF jobs'[j].attemptsMade < jobs[j].opts.attempts
                            THEN "delayed" ELSE "failed"
    ]_vars

\* an attempt whose processSync returned success=false for a call that threw
\* has been reported, and the job waits for its retry
C32_Witness ==
  \E j \in JobIds :
    /\ jobs[j].state = "delayed" /\ jobs[j].attemptsMade = 1
    /\ jobs[j].thrown = callError.message

\* ------------------------------------------------------------------------
\* C36: every reported attempt of a job has recorded exactly one sample
\* through recordSyncJob, 'success' for an attempt that succeeded and 'failed'
\* otherwise.
\* ------------------------------------------------------------------------
C36_OneSamplePerAttempt ==
  \A j \in JobIds :
    jobs[j].attemptsMade > 0 =>
      /\ Len(jobs[j].samples) = 1
      /\ jobs[j].samples[1] = (IF jobs[j].thrown = "" THEN "success" ELSE "failed")
\* ------------------------------------------------------------------------
\* C33: after an issue-updated job has completed with success, every target
\* issue made for its source carries the source's title, description, labels
\* and open/closed state, so that detectConflicts on the source and the
\* target reports no conflict.
\* ------------------------------------------------------------------------
C33_UpdatedSidesConverge ==
  \A j \in JobIds :
    (jobs[j].eventType = ISSUE_UPDATED /\ jobs[j].state = "completed") =>
      IF jobs[j].direction = GITHUB_TO_JIRA
        THEN \A i \in 1..Len(jiraIssues) :
               jiraIssues[i].from = jobs[j].sourceId =>
                 detectConflicts(GitHubSourceIssue(jobs[j].sourceId),
                                 jiraGetIssue(i + NumSources)) = NONE
        ELSE \A i \in 1..Len(githubIssues) :
               githubIssues[i].from = jobs[j].sourceId =>
                 detectConflicts(githubGetIssue(i + NumSources),
                                 JiraSourceIssue(jobs[j].sourceId)) = NONE

C34_PipelineQuiesces ==
  <>[](\A j \in JobIds : jobs[j].state \notin {"waiting", "active"})
\* ------------------------------------------------------------------------
\* C37: a GitHub webhook with a comment and its issue adds a COMMENT_CREATED
\* job for action 'created' and a COMMENT_UPDATED job for 'edited', with the
\* comment id as sourceId and the comment in sourceData; a webhook with an
\* issue only adds ISSUE_CREATED for 'opened' and ISSUE_UPDATED for 'edited'.
\* ------------------------------------------------------------------------
C37_CommentWebhookMakesCommentJob ==
  \A d \in 1..Len(deliveries) :
    (deliveries[d].source = "github" /\ deliveries[d].syncJobId # 0) =>
      LET event == deliveries[d].payload
          job == jobs[deliveries[d].syncJobId]
      IN IF event.comment # NONE
           THEN /\ event.action = "created" => job.eventType = COMMENT_CREATED
                /\ event.action = "edited" => job.eventType = COMMENT_UPDATED
                /\ event.action \in {"created", "edited"} =>
                      (job.sourceId = event.comment.id /\ job.sourceData.comment)
           ELSE /\ event.action = "opened" => job.eventType = ISSUE_CREATED
                /\ event.action = "edited" => job.eventType = ISSUE_UPDATED

\* ------------------------------------------------------------------------
\* C38: a request to POST /webhooks/github whose x-hub-signature-256 header
\* is missing or does not equal the digest of its body, whatever its length,
\* is answered 401 before the handler runs, and adds no job.
\* ------------------------------------------------------------------------
C38_UnverifiedRejected ==
  \A d \in 1..Len(deliveries) :
    (deliveries[d].source = "github"
       /\ deliveries[d].signature # hmacDigest(deliveries[d].payload))
      => /\ deliveries[d].status = 401
         /\ deliveries[d].pc = "done"
         /\ deliveries[d].syncJobId = 0
\* ------------------------------------------------------------------------
\* C39: for an injective label table, putting a GitHub label list into
\* Jira's names and the result back into GitHub's names with the same table
\* gives the list it started from, also for labels the table does not map.
\* ------------------------------------------------------------------------
C39_LabelRoundTrip ==
  conflict.stage = "back" => conflict.labels = conflict.given
====
